---- MODULE Spec2Model ----
(***************************************************************************)
(* Model of the dc-mcp-server runtime: the Running server's shared state   *)
(* (schema, compiled operations, headers, peers), its handlers             *)
(* (call_tool, initialize, update_schema, update_operations) and the       *)
(* token manager (get_valid_token, refresh_access_token, the background    *)
(* refresh task).                                                          *)
(***************************************************************************)
EXTENDS Integers, Sequences, FiniteSets, TLC

VARIABLES
    \* ---- Running (server/states/running.rs) ----
    schema,             \* Running.schema: the schema held
    operations,         \* Running.operations: Vec<Operation>
    peers,              \* Running.peers: Vec<Peer>
    headersAuth,        \* Authorization value of Running.headers (SharedHeaders)
    enabled,            \* which built-in tools are Some(..)
    mutation_mode,      \* Running.mutation_mode
    tmConfigured,       \* Running.token_manager.is_some()
    opsLock,            \* holder of the operations mutex
    schemaLock,         \* holder of the schema mutex
    \* ---- the task applying schema / operation updates ----
    updKind, updPc, updArg, updLocal,
    \* ---- call_tool tasks ----
    pc, req, result, sentAuth, tokRes, joined,
    \* ---- TokenManager behind Running.token_manager ----
    access_token, token_expires_at, tmLock,
    config_attached, headers_attached,
    \* ---- the clone owned by the background refresh task ----
    bgPc, bg_access_token, bg_token_expires_at, bgWake,
    \* ---- environment ----
    now,                \* Instant::now(), in seconds
    configToken,        \* token held by the external config file
    \* ---- history of get_valid_token calls on the shared manager ----
    lastResp, prevCall,
    \* ---- what clients and the monitoring observe ----
    listed,             \* tools of the last ListToolsResult
    lastSweep,          \* the last notification sweep: registry before, answers
    health_check,       \* Running.health_check.is_some()
    recorded,           \* per call_tool: rejection and telemetry recorded
    \* ---- the HTTP gates (auth.rs) ----
    customerIdEnv,      \* the CUSTOMER_ID environment variable
    tenantRouter,       \* the router enable_customer_id_validation returned
    oauthRouter,        \* the router Config::enable_middleware returned
    gateReq, gateResp,  \* the last HTTP request handled and its response
    \* ---- initialize_with_token_refresh (startup.rs) ----
    startPc,            \* the step the call is at
    startResult,        \* what the call returned
    startToken,         \* its local new_token
    configAtStart,      \* the token the config file held when it was called
    tmNew,              \* what its TokenManager::new returned
    envSetUp,           \* setup_environment_variables has run
    lastVerify,         \* what its verify_token call returned
    \* ---- the config file as text (config_manager.rs) ----
    configFile,         \* its content
    lastUpdate,         \* the last update_auth_token: content before, token
    \* ---- Starting::start (server/states/starting.rs) ----
    started,            \* what start was given and what it returned
    dispatched,         \* the last HTTP request the listener handled
    \* ---- headers sent upstream by call_tool (running.rs 246-300) ----
    headersExtra,       \* Running.headers besides Authorization
    disable_auth_token_passthrough,     \* Running.disable_auth_token_passthrough
    ctx,                \* per call_tool: the http Parts in context.extensions
    sentExtra,          \* per call_tool: headers sent besides Authorization
    \* ---- update_operations running on a clone of Running ----
    uoPc, uoArg, uoLocal,
    uoDuring,           \* it wrote the operations while an update_schema ran
    uoPeers,            \* the peers its sweep iterates over
    peersLock           \* holder of the peers write lock

serverVars == <<schema, operations, peers, enabled, mutation_mode, tmConfigured,
                opsLock, schemaLock>>
updVars    == <<updKind, updPc, updArg, updLocal>>
callVars   == <<pc, req, result, sentAuth, tokRes, joined>>
tmVars     == <<access_token, token_expires_at, tmLock, config_attached,
                headers_attached>>
bgVars     == <<bgPc, bg_access_token, bg_token_expires_at, bgWake>>
envVars    == <<now, configToken, headersAuth>>
histVars   == <<lastResp, prevCall>>
listVars   == <<listed>>
sweepVars  == <<lastSweep>>
recVars    == <<health_check, recorded>>
gateVars   == <<customerIdEnv, tenantRouter, oauthRouter, gateReq, gateResp>>
startVars  == <<startPc, startResult, startToken, configAtStart, tmNew,
                envSetUp, lastVerify>>
cfgVars    == <<configFile, lastUpdate>>
bootVars   == <<started, dispatched>>
hdrVars    == <<headersExtra, disable_auth_token_passthrough, ctx, sentExtra>>
cloneVars  == <<uoPc, uoArg, uoLocal, uoDuring, uoPeers, peersLock>>
extVars    == <<cfgVars, bootVars, hdrVars, cloneVars>>
auxVars    == <<listVars, sweepVars, recVars, gateVars, startVars, extVars>>

vars == <<serverVars, updVars, callVars, tmVars, bgVars, envVars, histVars,
          auxVars>>

----------------------------------------------------------------------------
\* Bounds of the model
NumSchemas == 2
MaxBatch   == 2
MaxPeers   == 2
MaxTicks   == 3
MaxHeaders == 2
MaxArgLen  == 2
MaxLines   == 2

\* Program constants
SafetyMarginSecs   == 300
DefaultExpirySecs  == 3600
RefreshIntervalSecs == 3000

----------------------------------------------------------------------------
\* Schemas.  A schema is known by the query fields and mutation fields it
\* declares; schema 1 is "type Query { id name } type Mutation { set }",
\* every later schema drops `name`.
Schemas == 1..NumSchemas

QueryFields(s)    == IF s = 1 THEN {"id", "name"} ELSE {"id"}
MutationFields(s) == {"set"}

\* Raw operations: the document's operation name ("" when anonymous), its
\* operation type, whether the document parses, and the root field it selects.
RawValid    == [name |-> "Valid",   optype |-> "query",    parses |-> TRUE,  field |-> "id"]
RawInvalid  == [name |-> "Invalid", optype |-> "query",    parses |-> FALSE, field |-> "id"]
RawUnnamed  == [name |-> "",        optype |-> "query",    parses |-> TRUE,  field |-> "id"]
RawMutation == [name |-> "Mutate",  optype |-> "mutation", parses |-> TRUE,  field |-> "set"]
RawGetName  == [name |-> "GetName", optype |-> "query",    parses |-> TRUE,  field |-> "name"]
RawSearch   == [name |-> "search",  optype |-> "query",    parses |-> TRUE,  field |-> "id"]

RawOperations == {RawValid, RawInvalid, RawUnnamed, RawMutation, RawGetName, RawSearch}

SeqsUpTo(S, n) == UNION {[1..k -> S] : k \in 0..n}

Batches == SeqsUpTo(RawOperations, MaxBatch)

\* The batch of tests::invalid_operations_should_not_crash_server.
TestBatch == <<RawValid, RawInvalid, RawUnnamed>>

UpdateBatches == Batches \cup {TestBatch}

\* MutationMode::None forbids mutations; Explicit and All both let a mutation
\* document compile, so one of the two stands for both.
MutationModes == {"None", "All"}

\* RawOperation::into_operation: Result<Option<Operation>, OperationError>.
\* A compiled operation keeps its raw form (Operation::into_inner), its tool
\* name, and the schema it was compiled against.
IntoOperation(raw, s, mode) ==
    IF ~raw.parses THEN [tag |-> "Err"]
    ELSE IF raw.name = "" THEN [tag |-> "Err"]
    ELSE IF raw.optype = "mutation" /\ mode = "None" THEN [tag |-> "None"]
    ELSE IF raw.optype = "mutation" /\ raw.field \notin MutationFields(s) THEN [tag |-> "Err"]
    ELSE IF raw.optype = "query" /\ raw.field \notin QueryFields(s) THEN [tag |-> "Err"]
    ELSE [tag |-> "Some", op |-> [raw |-> raw, name |-> raw.name, schema |-> s]]

\* The same loop giving up at the first operation that does not compile.
RECURSIVE FilterMapCompileStopAtError(_, _, _)
FilterMapCompileStopAtError(raws, s, mode) ==
    IF raws = <<>> THEN <<>>
    ELSE LET r == IntoOperation(Head(raws), s, mode)
         IN IF r.tag = "Some"
            THEN <<r.op>> \o FilterMapCompileStopAtError(Tail(raws), s, mode)
            ELSE <<>>

\* .filter_map(|operation| operation.into_operation(..).unwrap_or_else(|error| None))
RECURSIVE FilterMapCompile(_, _, _)
FilterMapCompile(raws, s, mode) ==
    IF raws = <<>> THEN <<>>
    ELSE LET r == IntoOperation(Head(raws), s, mode)
             rest == FilterMapCompile(Tail(raws), s, mode)
         IN IF r.tag = "Some" THEN <<r.op>> \o rest ELSE rest

\* Only the first operation held is taken back to its raw form.
IntoInnerFirstOnly(ops) == [i \in 1..(IF ops = <<>> THEN 0 ELSE 1) |-> ops[i].raw]

\* .iter().cloned().map(|operation| operation.into_inner())
IntoInner(ops) == [i \in 1..Len(ops) |-> ops[i].raw]

----------------------------------------------------------------------------
\* Built-in tools, in the order call_tool matches them.
INTROSPECT_TOOL_NAME == "introspect"
SEARCH_TOOL_NAME     == "search"
EXPLORER_TOOL_NAME   == "explorer"
EXECUTE_TOOL_NAME    == "execute"
VALIDATE_TOOL_NAME   == "validate"

BuiltinNames == {INTROSPECT_TOOL_NAME, SEARCH_TOOL_NAME, EXPLORER_TOOL_NAME,
                 EXECUTE_TOOL_NAME, VALIDATE_TOOL_NAME}

\* The configurations of built-ins the model starts from.
EnabledSets == {{}, {EXECUTE_TOOL_NAME}, BuiltinNames}

\* Names a client may ask for.
RequestNames == {EXECUTE_TOOL_NAME, SEARCH_TOOL_NAME, "Valid", "nope"}

Callers == {"c1", "c2"}
PeerIds == {"p1", "p2"}

NoToken  == <<>>
NoExpiry == -1
NoHeader == <<>>

\* .iter().find(|op| op.as_ref().name == tool_name)
FindOperation(ops, name) ==
    IF \E i \in 1..Len(ops) : ops[i].name = name
    THEN LET i == CHOOSE i \in 1..Len(ops) :
                    /\ ops[i].name = name
                    /\ \A j \in 1..(i - 1) : ops[j].name # name
         IN [tag |-> "Some", op |-> ops[i]]
    ELSE [tag |-> "None"]

----------------------------------------------------------------------------
\* Tokens are strings, kept as sequences of byte values.
TokOld == <<111>>
TokA   == <<97>>
TokB   == <<98>>
TokBad == <<10>>           \* a token holding a line feed

BearerPrefix == <<66, 101, 97, 114, 101, 114, 32>>      \* "Bearer "

\* The header value written without its scheme.
FormatBearerNoPrefix(token) == token

\* format!("Bearer {}", token)
FormatBearer(token) == BearerPrefix \o token

\* HeaderValue::from_str: every byte must be visible ASCII or a tab.
HeaderValueFromStr(str) ==
    IF \A i \in 1..Len(str) : (str[i] >= 32 /\ str[i] < 127) \/ str[i] = 9
    THEN [tag |-> "Ok", value |-> str]
    ELSE [tag |-> "Err"]

\* ConfigManager::update_auth_token on a file whose Authorization line holds
\* `held` (NoToken: the file has no such line, and nothing is rewritten).
UpdateAuthToken(held, new_token) == IF held = NoToken THEN NoToken ELSE new_token

NoExpiresIn == -1

\* What the refresh endpoint and the file system can answer to one refresh.
RefreshOutcomes ==
    [kind : {"send_err", "body_err", "parse_err"}, access_token : {NoToken},
     expires_in : {NoExpiresIn}, persist_ok : {TRUE}]
    \cup
    [kind : {"response"}, access_token : {TokA, TokB, TokBad},
     expires_in : {NoExpiresIn, SafetyMarginSecs, 2 * SafetyMarginSecs},
     persist_ok : BOOLEAN]

\* expires_at.duration_since(Instant::now()): saturates at zero.
DurationSince(later, earlier) == IF later >= earlier THEN later - earlier ELSE 0

\* The comparison of line 101 written with >= .
UseCachedInclusive(tok, exp, t) ==
    /\ tok # NoToken
    /\ exp # NoExpiry
    /\ DurationSince(exp, t) >= SafetyMarginSecs

\* get_valid_token, lines 97-105: TRUE when the cached token is returned.
UseCached(tok, exp, t) ==
    /\ tok # NoToken
    /\ exp # NoExpiry
    /\ DurationSince(exp, t) > SafetyMarginSecs

\* The expiry computed without the one-hour default of line 174.
ExpiryAfterNoDefault(t, expires_in) ==
    IF expires_in # NoExpiresIn THEN t + expires_in ELSE t

\* refresh_access_token, lines 164-176.
ExpiryAfter(t, expires_in) ==
    IF expires_in # NoExpiresIn THEN t + expires_in ELSE t + DefaultExpirySecs

\* refresh_access_token from the moment the request completes (lines 127-205)
\* on a manager whose slot is st = [access_token, token_expires_at], at time t.
\* Yields the new slot, the new config-file token, the new Authorization
\* value of the shared headers and the Result returned.
RefreshAccessToken(st, cfg, hdr, out, t, cfgAttached, hdrAttached) ==
    LET unchanged == [access_token |-> st.access_token,
                      token_expires_at |-> st.token_expires_at,
                      configToken |-> cfg, headersAuth |-> hdr]
    IN
    IF out.kind # "response"
    THEN unchanged @@ [res |-> "Err", step |-> out.kind]
    ELSE
      LET cached == [unchanged EXCEPT
                        !.access_token = out.access_token,
                        !.token_expires_at = ExpiryAfter(t, out.expires_in)]
          hv == HeaderValueFromStr(FormatBearer(out.access_token))
      IN
      IF hv.tag = "Err"
      THEN cached @@ [res |-> "Err", step |-> "header_err"]
      ELSE IF cfgAttached /\ ~out.persist_ok
      THEN cached @@ [res |-> "Err", step |-> "persist_err"]
      ELSE
        [cached EXCEPT
            !.configToken = IF cfgAttached THEN UpdateAuthToken(cfg, out.access_token) ELSE cfg,
            !.headersAuth = IF hdrAttached THEN hv.value ELSE hdr]
        @@ [res |-> "Ok", step |-> "done"]

----------------------------------------------------------------------------
\* An update that compiles the operation files again instead of the
\* operations held.
UpdateSchemaReload(new_schema) ==
    /\ updPc = "idle"
    /\ opsLock = "free"
    /\ updLocal' = FilterMapCompile(<<RawGetName, RawValid>>, new_schema,
                                    mutation_mode)
    /\ updArg' = new_schema
    /\ updKind' = "update_schema"
    /\ updPc' = "us_write_ops"
    /\ UNCHANGED auxVars
    /\ UNCHANGED <<serverVars, callVars, tmVars, bgVars, envVars, histVars>>

\* Running::update_schema, lines 72-93: under the operations lock, recompile
\* the held operations against the new schema into a local vector.
UpdateSchemaRecompile(new_schema) ==
    /\ updPc = "idle"
    /\ opsLock = "free"
    /\ updLocal' = FilterMapCompile(IntoInner(operations), new_schema, mutation_mode)
    /\ updArg' = new_schema
    /\ updKind' = "update_schema"
    /\ updPc' = "us_write_ops"
    /\ UNCHANGED auxVars
    /\ UNCHANGED <<serverVars, callVars, tmVars, bgVars, envVars, histVars>>

\* The operations guard kept until the schema is written.
UpdateSchemaWriteOperationsKeepLock ==
    /\ updPc = "us_write_ops"
    /\ opsLock = "free"
    /\ operations' = updLocal
    /\ opsLock' = "update"
    /\ updPc' = "us_write_schema"
    /\ UNCHANGED auxVars
    /\ UNCHANGED <<schema, peers, enabled, mutation_mode, tmConfigured,
                   schemaLock, updKind, updArg, updLocal, callVars, tmVars,
                   bgVars, envVars, histVars>>

\* line 100: *self.operations.lock().await = operations
UpdateSchemaWriteOperations ==
    /\ updPc = "us_write_ops"
    /\ opsLock = "free"
    /\ operations' = updLocal
    /\ updPc' = "us_write_schema"
    /\ UNCHANGED auxVars
    /\ UNCHANGED <<schema, peers, enabled, mutation_mode, tmConfigured, opsLock,
                   schemaLock, updKind, updArg, updLocal, callVars, tmVars,
                   bgVars, envVars, histVars>>

\* line 103: *self.schema.lock().await = schema
UpdateSchemaWriteSchema ==
    /\ updPc = "us_write_schema"
    /\ schemaLock = "free"
    /\ schema' = updArg
    /\ updPc' = "notify"
    /\ UNCHANGED auxVars
    /\ UNCHANGED <<operations, peers, enabled, mutation_mode, tmConfigured,
                   opsLock, schemaLock, updKind, updArg, updLocal, callVars, tmVars,
                   bgVars, envVars, histVars>>

\* Running::update_operations, lines 119-136: take the schema lock and compile
\* the batch against the schema held.
UpdateOperationsCompile(batch) ==
    /\ updPc = "idle"
    /\ schemaLock = "free"
    /\ schemaLock' = "update"
    /\ updLocal' = FilterMapCompile(batch, schema, mutation_mode)
    /\ updArg' = batch
    /\ updKind' = "update_operations"
    /\ updPc' = "uo_write_ops"
    /\ UNCHANGED auxVars
    /\ UNCHANGED <<schema, operations, peers, enabled, mutation_mode,
                   tmConfigured, opsLock, callVars, tmVars, bgVars, envVars,
                   histVars>>

\* line 143, then the block ends and the schema guard is dropped.
UpdateOperationsWrite ==
    /\ updPc = "uo_write_ops"
    /\ opsLock = "free"
    /\ operations' = updLocal
    /\ schemaLock' = "free"
    /\ updPc' = "notify"
    /\ UNCHANGED auxVars
    /\ UNCHANGED <<schema, peers, enabled, mutation_mode, tmConfigured, opsLock,
                   updKind, updArg, updLocal, callVars, tmVars, bgVars, envVars,
                   histVars>>

\* No sweep has run yet.
NoSweep == <<"none">>

\* What one peer answers to a sweep: its transport is closed, or
\* notify_tool_list_changed returns Ok, a transport error, or another error.
PeerOutcomes == {"closed", "ok", "transport_send", "transport_closed", "other_err"}

\* A sweep that drops a peer on any error.
RECURSIVE RetainedPeersOkOnly(_, _)
RetainedPeersOkOnly(ps, outcome) ==
    IF ps = <<>> THEN <<>>
    ELSE LET rest == RetainedPeersOkOnly(Tail(ps), Tail(outcome))
         IN IF outcome[1] = "ok" THEN <<Head(ps)>> \o rest ELSE rest

\* A sweep that collects the retained peers last to first.
RECURSIVE RetainedPeersReversed(_, _)
RetainedPeersReversed(ps, outcome) ==
    IF ps = <<>> THEN <<>>
    ELSE LET rest == RetainedPeersReversed(Tail(ps), Tail(outcome))
         IN IF outcome[1] \in {"ok", "other_err"} THEN rest \o <<Head(ps)>> ELSE rest

\* notify_tool_list_changed, lines 161-176: the peers retained.
RECURSIVE RetainedPeers(_, _)
RetainedPeers(ps, outcome) ==
    IF ps = <<>> THEN <<>>
    ELSE LET o == outcome[1]
             rest == RetainedPeers(Tail(ps), Tail(outcome))
         IN IF o \in {"ok", "other_err"} THEN <<Head(ps)>> \o rest ELSE rest

\* Running::notify_tool_list_changed, the last step of both updates.
NotifyToolListChanged ==
    /\ updPc = "notify"
    /\ peersLock = "free"
    /\ \E outcome \in [1..Len(peers) -> PeerOutcomes] :
          /\ peers' = RetainedPeers(peers, outcome)
          /\ lastSweep' = outcome
    /\ updPc' = "idle"
    /\ UNCHANGED <<listVars, recVars, gateVars, startVars, extVars>>
    /\ UNCHANGED <<schema, operations, enabled, mutation_mode, tmConfigured,
                   opsLock, schemaLock, updKind, updArg, updLocal, callVars, tmVars,
                   bgVars, envVars, histVars>>

\* A registration that does not wait for the registry.
InitializeWithoutLock(p) ==
    /\ Len(peers) < MaxPeers
    /\ peers' = Append(peers, p)
    /\ UNCHANGED auxVars
    /\ UNCHANGED <<schema, operations, enabled, mutation_mode, tmConfigured,
                   opsLock, schemaLock, updVars, callVars, tmVars, bgVars,
                   envVars, histVars>>

\* Running::initialize, lines 203-204: peers.write().await, then
\* peers.push(context.peer)
Initialize(p) ==
    /\ Len(peers) < MaxPeers
    /\ peersLock = "free"
    /\ peers' = Append(peers, p)
    /\ UNCHANGED auxVars
    /\ UNCHANGED <<schema, operations, enabled, mutation_mode, tmConfigured,
                   opsLock, schemaLock, updVars, callVars, tmVars, bgVars,
                   envVars, histVars>>

\* Running is Clone and its schema, operations and peers are Arcs: an
\* update_operations called on a clone runs beside the update of the other
\* task.  Lines 119-136: take the schema lock and compile the batch against
\* the schema held.
CloneUpdateOperationsCompile(batch) ==
    /\ uoPc = "idle"
    /\ schemaLock = "free"
    /\ schemaLock' = "clone"
    /\ uoLocal' = FilterMapCompile(batch, schema, mutation_mode)
    /\ uoArg' = batch
    /\ uoPc' = "uo_write_ops"
    /\ uoDuring' = FALSE
    /\ UNCHANGED <<uoPeers, peersLock, cfgVars, bootVars, hdrVars>>
    /\ UNCHANGED <<listVars, sweepVars, recVars, gateVars, startVars>>
    /\ UNCHANGED <<schema, operations, peers, enabled, mutation_mode,
                   tmConfigured, opsLock, updVars, callVars, tmVars, bgVars,
                   envVars, histVars>>

\* line 143 on the clone, then the schema guard is dropped.
CloneUpdateOperationsWrite ==
    /\ uoPc = "uo_write_ops"
    /\ opsLock = "free"
    /\ operations' = uoLocal
    /\ schemaLock' = "free"
    /\ uoPc' = "notify"
    /\ uoDuring' = (updPc \in {"us_write_ops", "us_write_schema"})
    /\ UNCHANGED <<uoArg, uoLocal, uoPeers, peersLock, cfgVars, bootVars, hdrVars>>
    /\ UNCHANGED <<listVars, sweepVars, recVars, gateVars, startVars>>
    /\ UNCHANGED <<schema, peers, enabled, mutation_mode, tmConfigured, opsLock,
                   updVars, callVars, tmVars, bgVars, envVars, histVars>>

\* notify_tool_list_changed on the clone, lines 154-162: peers.write().await
\* and the loop starts on the peers registered.
CloneSweepLock ==
    /\ uoPc = "notify"
    /\ peersLock = "free"
    /\ peersLock' = "clone"
    /\ uoPeers' = peers
    /\ uoPc' = "sweeping"
    /\ UNCHANGED <<uoArg, uoLocal, uoDuring, cfgVars, bootVars, hdrVars>>
    /\ UNCHANGED <<listVars, sweepVars, recVars, gateVars, startVars>>
    /\ UNCHANGED <<serverVars, updVars, callVars, tmVars, bgVars, envVars,
                   histVars>>

\* lines 163-177 under the write guard: every peer is notified, the
\* retained ones are written back and the guard is dropped.
CloneSweepDone ==
    /\ uoPc = "sweeping"
    /\ \E outcome \in [1..Len(uoPeers) -> PeerOutcomes] :
          /\ peers' = RetainedPeers(uoPeers, outcome)
          /\ lastSweep' = outcome
    /\ peersLock' = "free"
    /\ uoPc' = "idle"
    /\ UNCHANGED <<uoArg, uoLocal, uoDuring, uoPeers, cfgVars, bootVars, hdrVars>>
    /\ UNCHANGED <<listVars, recVars, gateVars, startVars>>
    /\ UNCHANGED <<schema, operations, enabled, mutation_mode, tmConfigured,
                   opsLock, schemaLock, updVars, callVars, tmVars, bgVars,
                   envVars, histVars>>

\* The Tool a compiled operation derefs to (op.as_ref()): its name, and the
\* input schema derived from the schema it was compiled against.
OperationTool(op) == [name |-> op.name, schema |-> op.schema, builtin |-> FALSE]

\* The `tool` field of a built-in tool.
BuiltinTool(n) == [name |-> n, schema |-> 0, builtin |-> TRUE]

\* Option::iter().map(|e| e.tool.clone()): one tool if the built-in is Some.
OptionTool(n, en) == IF n \in en THEN <<BuiltinTool(n)>> ELSE <<>>

RECURSIVE MapOperationTool(_)
MapOperationTool(ops) ==
    IF ops = <<>> THEN <<>>
    ELSE <<OperationTool(Head(ops))>> \o MapOperationTool(Tail(ops))

\* A listing with the built-in tools ahead of the operations.
ListToolsResultBuiltinsFirst(ops, en) ==
    OptionTool(EXECUTE_TOOL_NAME, en)
        \o OptionTool(INTROSPECT_TOOL_NAME, en)
        \o OptionTool(SEARCH_TOOL_NAME, en)
        \o OptionTool(EXPLORER_TOOL_NAME, en)
        \o OptionTool(VALIDATE_TOOL_NAME, en)
        \o MapOperationTool(ops)

\* list_tools lines 352-363: the operations, then execute, introspect,
\* search, explorer and validate, each if enabled.
ListToolsResult(ops, en) ==
    MapOperationTool(ops)
        \o OptionTool(EXECUTE_TOOL_NAME, en)
        \o OptionTool(INTROSPECT_TOOL_NAME, en)
        \o OptionTool(SEARCH_TOOL_NAME, en)
        \o OptionTool(EXPLORER_TOOL_NAME, en)
        \o OptionTool(VALIDATE_TOOL_NAME, en)

NoList == <<[name |-> "", schema |-> 0, builtin |-> FALSE]>>

\* Running::list_tools, lines 340-365: the operations lock is taken for the
\* length of the expression.
ListTools ==
    /\ opsLock = "free"
    /\ listed' = ListToolsResult(operations, enabled)
    /\ UNCHANGED <<serverVars, updVars, callVars, tmVars, bgVars, envVars,
                   histVars, sweepVars, recVars, gateVars, startVars, extVars>>

----------------------------------------------------------------------------
\* Running::call_tool

\* The last get_valid_token call on the shared manager: seconds since it
\* started (capped), whether it sent a refresh request, the lifetime granted by
\* the response it parsed, and whether it started within the safety margin of
\* a call that had sent a refresh request.
NoCall == [age |-> 2 * SafetyMarginSecs, net |-> FALSE, life |-> NoExpiry,
           after |-> FALSE]

FollowsRefresh == prevCall.net /\ prevCall.age <= SafetyMarginSecs

\* The call that sent a request ended without a token cached for longer than
\* the margin plus the time between two calls.
NoLastingToken == prevCall.life = NoExpiry \/ prevCall.life <= 2 * SafetyMarginSecs

\* call_tool lines 217-221: where the task goes once get_valid_token returned
\* `res`; an Err is logged and the call goes on.
CallToolAfterTokenAbort(res) == IF res = "Err" THEN "done" ELSE "resolve"

CallToolAfterToken(res) == "resolve"
NoResp == [kind |-> "none"]

\* The http request Parts of a call's context: the ValidToken of its
\* extensions (NoToken: none) and the values of its mcp-session-id headers.
NoParts == [present |-> FALSE, valid_token |-> NoToken, session_ids |-> <<>>]

\* Running.headers besides Authorization: mcp-session-id and one other header.
NoExtra == [session |-> NoHeader, other |-> NoHeader]

\* Nothing recorded for the call.
NoRecord == [rejection |-> FALSE, telemetry |-> FALSE, tool_name |-> "",
             success |-> FALSE]

\* The results call_tool returns as Err(McpError).
ErrorResults == {"not_found", "invalid_params", "tool_error"}

\* call_tool lines 314-334, reached with the `result` of the match: the
\* rejection for the health check if one is configured, then the tool
\* duration and tool count with the success flag and the tool name.
RecordResult(res, name, hc) ==
    [rejection |-> (res \in ErrorResults /\ hc),
     telemetry |-> TRUE,
     tool_name |-> name,
     success   |-> (res \notin ErrorResults)]

\* A request arrives.  Lines 215-216: with a token manager the task first
\* queues for the manager's lock.
CallToolBegin(c, name, parts) ==
    /\ pc[c] \in {"idle", "done"}
    /\ ctx' = [ctx EXCEPT ![c] = parts]
    /\ sentExtra' = [sentExtra EXCEPT ![c] = NoExtra]
    /\ req' = [req EXCEPT ![c] = name]
    /\ result' = [result EXCEPT ![c] = "none"]
    /\ sentAuth' = [sentAuth EXCEPT ![c] = NoHeader]
    /\ tokRes' = [tokRes EXCEPT ![c] = "none"]
    /\ joined' = [joined EXCEPT ![c] =
                     tmConfigured /\ \E d \in Callers \ {c} : pc[d] = "tm_refresh"]
    /\ pc' = [pc EXCEPT ![c] = IF tmConfigured THEN "tm_wait" ELSE "resolve"]
    /\ recorded' = [recorded EXCEPT ![c] = NoRecord]
    /\ UNCHANGED <<listVars, sweepVars, health_check, gateVars, startVars,
                   cfgVars, bootVars, cloneVars, headersExtra,
                   disable_auth_token_passthrough>>
    /\ UNCHANGED <<serverVars, updVars, tmVars, bgVars, envVars, histVars>>

\* A request that did not come over HTTP: no Parts in its context.
CallToolStart(c, name) == CallToolBegin(c, name, NoParts)

\* lines 216-217 and get_valid_token lines 97-104: the lock is taken, the
\* cached token is still good and is returned; the guard is dropped.
GetValidTokenCached(c) ==
    /\ pc[c] = "tm_wait"
    /\ tmLock = "free"
    /\ UseCached(access_token, token_expires_at, now)
    /\ tokRes' = [tokRes EXCEPT ![c] = "cached"]
    /\ pc' = [pc EXCEPT ![c] = CallToolAfterToken("Ok")]
    /\ prevCall' = [age |-> 0, net |-> FALSE, life |-> NoExpiry,
                    after |-> FollowsRefresh]
    /\ UNCHANGED auxVars
    /\ UNCHANGED <<serverVars, updVars, req, result, sentAuth, joined, tmVars,
                   bgVars, envVars, lastResp>>

\* get_valid_token lines 107-109 and refresh_access_token lines 114-126: the
\* lock is taken, the token is not good, the refresh request is sent.
RefreshSend(c) ==
    /\ pc[c] = "tm_wait"
    /\ tmLock = "free"
    /\ ~UseCached(access_token, token_expires_at, now)
    /\ tmLock' = c
    /\ pc' = [pc EXCEPT ![c] = "tm_refresh"]
    /\ prevCall' = [age |-> 0, net |-> TRUE, life |-> NoExpiry,
                    after |-> FollowsRefresh]
    /\ UNCHANGED auxVars
    /\ UNCHANGED <<serverVars, updVars, req, result, sentAuth, tokRes, joined,
                   access_token, token_expires_at, config_attached,
                   headers_attached, bgVars, envVars, lastResp>>

\* refresh_access_token lines 127-205, then call_tool lines 217-221: the
\* request completes, the result is logged if an error, the guard is dropped.
RefreshDone(c, out) ==
    /\ pc[c] = "tm_refresh"
    /\ tmLock = c
    /\ LET r == RefreshAccessToken(
                    [access_token |-> access_token,
                     token_expires_at |-> token_expires_at],
                    configToken, headersAuth, out, now,
                    config_attached, headers_attached)
       IN /\ access_token' = r.access_token
          /\ token_expires_at' = r.token_expires_at
          /\ configToken' = r.configToken
          /\ headersAuth' = r.headersAuth
          /\ tokRes' = [tokRes EXCEPT ![c] = IF r.res = "Ok" THEN "refreshed" ELSE "error"]
          /\ lastResp' = [kind |-> r.step, access_token |-> out.access_token,
                          expires_in |-> out.expires_in]
          /\ prevCall' = [prevCall EXCEPT !.life =
                             IF out.kind # "response" THEN NoExpiry
                             ELSE IF out.expires_in = NoExpiresIn THEN DefaultExpirySecs
                             ELSE out.expires_in]
          /\ pc' = [pc EXCEPT ![c] = CallToolAfterToken(r.res)]
          /\ result' = [result EXCEPT ![c] =
                           IF CallToolAfterToken(r.res) = "done" THEN "token_error" ELSE @]
    /\ tmLock' = "free"
    /\ UNCHANGED auxVars
    /\ UNCHANGED <<serverVars, updVars, req, sentAuth, joined,
                   config_attached, headers_attached, bgVars, now>>

\* The overlay applying the caller's token whatever the configuration says.
UpstreamHeadersAlwaysPassthrough(shared, parts, disabled) ==
    [authorization |-> IF parts.present /\ parts.valid_token # NoToken
                       THEN FormatBearer(parts.valid_token)
                       ELSE shared.authorization,
     session |-> IF parts.present /\ parts.session_ids # <<>>
                 THEN Head(parts.session_ids)
                 ELSE shared.session,
     other |-> shared.other]

\* lines 247-260 and 281-294: the clone of the shared headers with the
\* caller's token (typed_insert) and session id (insert) laid over it.
UpstreamHeaders(shared, parts, disabled) ==
    [authorization |-> IF parts.present /\ ~disabled /\ parts.valid_token # NoToken
                       THEN FormatBearer(parts.valid_token)
                       ELSE shared.authorization,
     session |-> IF parts.present /\ parts.session_ids # <<>>
                 THEN Head(parts.session_ids)
                 ELSE shared.session,
     other |-> shared.other]

\* Headers overlaid in place: a call reads what the last call sent.
SharedHeadersOverlaidInPlace ==
    LET sent == {c \in Callers : sentAuth[c] # NoHeader}
    IN IF sent = {}
       THEN [authorization |-> headersAuth, session |-> headersExtra.session,
             other |-> headersExtra.other]
       ELSE LET c == CHOOSE c \in sent : TRUE
            IN [authorization |-> sentAuth[c], session |-> sentExtra[c].session,
                other |-> sentExtra[c].other]

\* self.headers.read().await.clone()
SharedHeaders ==
    [authorization |-> headersAuth, session |-> headersExtra.session,
     other |-> headersExtra.other]

UpstreamFor(c) ==
    UpstreamHeaders(SharedHeaders, ctx[c], disable_auth_token_passthrough)

\* lines 226-312, the match on the tool name, up to the first await.
Resolve(c, argsOk) ==
    /\ pc[c] = "resolve"
    /\ IF req[c] \in {INTROSPECT_TOOL_NAME, SEARCH_TOOL_NAME, EXPLORER_TOOL_NAME,
                      VALIDATE_TOOL_NAME}
       THEN /\ sentAuth' = sentAuth
            /\ IF req[c] \notin enabled
               THEN /\ result' = [result EXCEPT ![c] = "not_found"]
                    /\ pc' = [pc EXCEPT ![c] = "done"]
               ELSE IF ~argsOk
               THEN /\ result' = [result EXCEPT ![c] = "invalid_params"]
                    /\ pc' = [pc EXCEPT ![c] = "done"]
               ELSE /\ result' = result
                    /\ pc' = [pc EXCEPT ![c] = "executing"]
       ELSE IF req[c] = EXECUTE_TOOL_NAME
       THEN /\ sentAuth' = [sentAuth EXCEPT ![c] = UpstreamFor(c).authorization]
            /\ IF req[c] \notin enabled
               THEN /\ result' = [result EXCEPT ![c] = "not_found"]
                    /\ pc' = [pc EXCEPT ![c] = "done"]
               ELSE /\ result' = result
                    /\ pc' = [pc EXCEPT ![c] = "executing"]
       ELSE /\ sentAuth' = [sentAuth EXCEPT ![c] = UpstreamFor(c).authorization]
            /\ result' = result
            /\ pc' = [pc EXCEPT ![c] = "op_wait"]
    /\ sentExtra' = [sentExtra EXCEPT ![c] =
                        IF req[c] \in {INTROSPECT_TOOL_NAME, SEARCH_TOOL_NAME,
                                       EXPLORER_TOOL_NAME, VALIDATE_TOOL_NAME}
                        THEN @
                        ELSE [session |-> UpstreamFor(c).session,
                              other |-> UpstreamFor(c).other]]
    /\ UNCHANGED <<listVars, sweepVars, recVars, gateVars, startVars, cfgVars,
                   bootVars, cloneVars, headersExtra, disable_auth_token_passthrough, ctx>>
    /\ UNCHANGED <<serverVars, updVars, req, tokRes, joined, tmVars, bgVars,
                   envVars, histVars>>

\* lines 302-308: the operations lock is taken and the name looked up; the
\* guard lives until the operation's execute future completes.
OperationLookup(c) ==
    /\ pc[c] = "op_wait"
    /\ opsLock = "free"
    /\ IF FindOperation(operations, req[c]).tag = "Some"
       THEN /\ opsLock' = c
            /\ result' = result
            /\ pc' = [pc EXCEPT ![c] = "executing"]
       ELSE /\ opsLock' = opsLock
            /\ result' = [result EXCEPT ![c] = "not_found"]
            /\ pc' = [pc EXCEPT ![c] = "done"]
    /\ UNCHANGED auxVars
    /\ UNCHANGED <<schema, operations, peers, enabled, mutation_mode,
                   tmConfigured, schemaLock, updVars, req, sentAuth, tokRes,
                   joined, tmVars, bgVars, envVars, histVars>>

\* The tool's execute future completes (lines 231-310) and call_tool returns.
ExecuteDone(c, ok) ==
    /\ pc[c] = "executing"
    /\ result' = [result EXCEPT ![c] = IF ok THEN "ok" ELSE "tool_error"]
    /\ opsLock' = IF opsLock = c THEN "free" ELSE opsLock
    /\ recorded' = [recorded EXCEPT ![c] =
                       RecordResult(IF ok THEN "ok" ELSE "tool_error", req[c],
                                    health_check)]
    /\ pc' = [pc EXCEPT ![c] = "done"]
    /\ UNCHANGED <<listVars, sweepVars, health_check, gateVars, startVars, extVars>>
    /\ UNCHANGED <<schema, operations, peers, enabled, mutation_mode,
                   tmConfigured, schemaLock, updVars, req, sentAuth, tokRes,
                   joined, tmVars, bgVars, envVars, histVars>>

----------------------------------------------------------------------------
\* The HTTP gates of auth.rs.  Header names and values are byte strings.

\* "X-Company-ID" and "x-company-id"
NameXCompanyId == <<88, 45, 67, 111, 109, 112, 97, 110, 121, 45, 73, 68>>
NameLowerXCompanyId == <<120, 45, 99, 111, 109, 112, 97, 110, 121, 45, 105, 100>>

\* http::HeaderName keeps names in lower case, so a lookup ignores the case
\* of the name sent.
LowerByte(b) == IF b >= 65 /\ b <= 90 THEN b + 32 ELSE b

LowerName(n) == [i \in 1..Len(n) |-> LowerByte(n[i])]

\* Values a client may send: "Ac", "ac", "", "B", and 'A' followed by the
\* byte 0xFF.
ValAc     == <<65, 99>>
ValLower  == <<97, 99>>
ValEmpty  == <<>>
ValOther  == <<66>>
ValOpaque == <<65, 255>>

TenantValues == {ValAc, ValLower, ValEmpty, ValOther, ValOpaque}

\* "x-b3", a header the gate does not look at
NameOther == <<120, 45, 98, 51>>

TenantHeaders ==
    [name : {NameXCompanyId, NameLowerXCompanyId, NameOther}, value : TenantValues]

\* HeaderMap::get(name): the first value stored under the name.
RECURSIVE HeaderGet(_, _)
HeaderGet(headers, name) ==
    IF headers = <<>> THEN [tag |-> "None"]
    ELSE IF LowerName(Head(headers).name) = name
    THEN [tag |-> "Some", value |-> Head(headers).value]
    ELSE HeaderGet(Tail(headers), name)

\* HeaderValue::to_str: Err unless every byte is visible ASCII or a tab.
HeaderValueToStr(value) ==
    IF \A i \in 1..Len(value) : (value[i] >= 32 /\ value[i] < 127) \/ value[i] = 9
    THEN [tag |-> "Ok", str |-> value]
    ELSE [tag |-> "Err"]

\* The responses of the gates and of the inner handler.
Unauthorized(challenge) ==
    [status |-> 401, challenge |-> challenge, handler |-> FALSE,
     valid_token |-> NoToken]

NoChallenge == [scheme |-> "", resource_metadata |-> <<>>]

\* next.run(request): the inner handler answers; `token` is the ValidToken
\* found in the request's extensions.
HandlerResponse(token) ==
    [status |-> 200, challenge |-> NoChallenge, handler |-> TRUE,
     valid_token |-> token]

NoRequest  == [kind |-> "none"]
NoResponse == [status |-> 0, challenge |-> NoChallenge, handler |-> FALSE,
               valid_token |-> NoToken]
NoRouter   == [built |-> FALSE]

\* A gate comparing the header without regard to case.
CustomerIdValidateAnyCase(expected_customer_id, headers) ==
    LET customer_id_header == HeaderGet(headers, NameLowerXCompanyId)
    IN IF customer_id_header.tag = "None" THEN Unauthorized(NoChallenge)
       ELSE LET header_str == HeaderValueToStr(customer_id_header.value)
            IN IF header_str.tag = "Err" THEN Unauthorized(NoChallenge)
               ELSE IF LowerName(header_str.str) = LowerName(expected_customer_id)
               THEN HandlerResponse(NoToken)
               ELSE Unauthorized(NoChallenge)

\* customer_id_validate, auth.rs lines 156-204.
CustomerIdValidate(expected_customer_id, headers) ==
    LET customer_id_header == HeaderGet(headers, NameLowerXCompanyId)
    IN IF customer_id_header.tag = "None" THEN Unauthorized(NoChallenge)
       ELSE LET header_str == HeaderValueToStr(customer_id_header.value)
            IN IF header_str.tag = "Err" THEN Unauthorized(NoChallenge)
               ELSE IF header_str.str = expected_customer_id
               THEN HandlerResponse(NoToken)
               ELSE Unauthorized(NoChallenge)

\* The CUSTOMER_ID variable: unset, or set to "", "Ac", or the byte 0xFF.
EnvUnset == [set |-> FALSE, bytes |-> <<>>]

EnvValues == {EnvUnset} \cup [set : {TRUE}, bytes : {<<>>, ValAc, <<255>>}]

\* std::env::var: Err(NotPresent) when unset, Err(NotUnicode) when the value
\* is not valid Unicode (here: holds a byte that no UTF-8 string holds).
EnvVar(v) ==
    IF ~v.set THEN [tag |-> "Err", error |-> "NotPresent"]
    ELSE IF \E i \in 1..Len(v.bytes) : v.bytes[i] >= 128
    THEN [tag |-> "Err", error |-> "NotUnicode"]
    ELSE [tag |-> "Ok", val |-> v.bytes]

\* env::set_var / env::remove_var by the operator or the process itself.
SetEnv(v) ==
    /\ customerIdEnv' = v
    /\ UNCHANGED <<serverVars, updVars, callVars, tmVars, bgVars, envVars,
                   histVars, listVars, sweepVars, recVars, startVars, extVars, tenantRouter,
                   oauthRouter, gateReq, gateResp>>

\* enable_customer_id_validation, auth.rs lines 132-152.
EnableCustomerIdValidation ==
    /\ ~tenantRouter.built
    /\ LET customer_id_env == EnvVar(customerIdEnv)
       IN tenantRouter' =
             IF customer_id_env.tag = "Ok" /\ customer_id_env.val # <<>>
             THEN [built |-> TRUE, layer |-> TRUE, expected |-> customer_id_env.val,
                   env |-> customerIdEnv]
             ELSE [built |-> TRUE, layer |-> FALSE, expected |-> <<>>,
                   env |-> customerIdEnv]
    /\ UNCHANGED <<serverVars, updVars, callVars, tmVars, bgVars, envVars,
                   histVars, listVars, sweepVars, recVars, startVars, extVars, customerIdEnv,
                   oauthRouter, gateReq, gateResp>>

\* A client opens a request to the tenant router; its header lines follow.
ReceiveRequest ==
    /\ tenantRouter.built
    /\ gateReq.kind # "receiving"
    /\ gateReq' = [kind |-> "receiving", headers |-> <<>>]
    /\ gateResp' = NoResponse
    /\ UNCHANGED <<serverVars, updVars, callVars, tmVars, bgVars, envVars,
                   histVars, listVars, sweepVars, recVars, startVars, extVars, customerIdEnv,
                   tenantRouter, oauthRouter>>

\* The next header line of the request is read.
ReceiveHeader(header) ==
    /\ gateReq.kind = "receiving"
    /\ Len(gateReq.headers) < MaxHeaders
    /\ gateReq' = [gateReq EXCEPT !.headers = Append(@, header)]
    /\ UNCHANGED <<serverVars, updVars, callVars, tmVars, bgVars, envVars,
                   histVars, listVars, sweepVars, recVars, startVars, extVars, customerIdEnv,
                   tenantRouter, oauthRouter, gateResp>>

\* The request is served by the router enable_customer_id_validation
\* returned.
TenantRequest ==
    /\ tenantRouter.built
    /\ gateReq.kind = "receiving"
    /\ gateReq' = [gateReq EXCEPT !.kind = "tenant"]
    /\ gateResp' = IF tenantRouter.layer
                   THEN CustomerIdValidate(tenantRouter.expected, gateReq.headers)
                   ELSE HandlerResponse(NoToken)
    /\ UNCHANGED <<serverVars, updVars, callVars, tmVars, bgVars, envVars,
                   histVars, listVars, sweepVars, recVars, startVars, extVars, customerIdEnv,
                   tenantRouter, oauthRouter>>

\* auth::Config.resource, a Url: origin, path and query.
Resources ==
    {[origin |-> "http://localhost:4000", path |-> "/", query |-> ""],
     [origin |-> "http://localhost:4000", path |-> "/mcp", query |-> "v=1"]}

WellKnownPath == "/.well-known/oauth-protected-resource"

\* Url::set_path replaces the path and keeps the rest of the URL.
SetPath(url, path) == [url EXCEPT !.path = path]

\* The Authorization header of a request: absent, "Basic a", "Bearer a" or
\* "Bearer b".
NoAuthorization == [present |-> FALSE, value |-> <<>>]

BasicValue == <<66, 97, 115, 105, 99, 32, 97>>

AuthorizationValues ==
    {NoAuthorization}
        \cup [present : {TRUE},
              value : {BasicValue, FormatBearer(TokA), FormatBearer(TokB)}]

\* The extractor Option<TypedHeader<Authorization<Bearer>>>: Some(token) when
\* the header is there and carries the Bearer scheme.
TypedBearer(authorization) ==
    IF /\ authorization.present
       /\ Len(authorization.value) > Len(BearerPrefix)
       /\ SubSeq(authorization.value, 1, Len(BearerPrefix)) = BearerPrefix
    THEN [tag |-> "Some",
          token |-> SubSeq(authorization.value, Len(BearerPrefix) + 1,
                           Len(authorization.value))]
    ELSE [tag |-> "None"]

\* oauth_validate lines 96-106: the consolidated unauthorized error.
UnauthorizedError(resource) ==
    Unauthorized([scheme |-> "Bearer",
                  resource_metadata |-> SetPath(resource, WellKnownPath)])

\* A gate that lets every bearer token through.
OauthValidateUnchecked(resource, authorization, validates) ==
    LET token == TypedBearer(authorization)
    IN IF token.tag = "None" THEN UnauthorizedError(resource)
       ELSE HandlerResponse(token.token)

\* oauth_validate, auth.rs lines 89-128; `validates` is whether
\* NetworkedTokenValidator::validate returned a ValidToken for the token.
OauthValidate(resource, authorization, validates) ==
    LET token == TypedBearer(authorization)
    IN IF token.tag = "None" THEN UnauthorizedError(resource)
       ELSE IF ~validates THEN UnauthorizedError(resource)
       ELSE HandlerResponse(token.token)

\* Config::enable_middleware, auth.rs lines 57-85: the router with the
\* oauth_validate layer around the MCP routes.
EnableMiddleware(resource) ==
    /\ ~oauthRouter.built
    /\ oauthRouter' = [built |-> TRUE, resource |-> resource]
    /\ UNCHANGED <<serverVars, updVars, callVars, tmVars, bgVars, envVars,
                   histVars, listVars, sweepVars, recVars, startVars, extVars, customerIdEnv,
                   tenantRouter, gateReq, gateResp>>

\* A request served by the router Config::enable_middleware returned.
OauthRequest(authorization, validates) ==
    /\ oauthRouter.built
    /\ gateReq.kind # "receiving"
    /\ gateReq' = [kind |-> "oauth", authorization |-> authorization,
                   validates |-> validates]
    /\ gateResp' = OauthValidate(oauthRouter.resource, authorization, validates)
    /\ UNCHANGED <<serverVars, updVars, callVars, tmVars, bgVars, envVars,
                   histVars, listVars, sweepVars, recVars, startVars, extVars, customerIdEnv,
                   tenantRouter, oauthRouter>>

----------------------------------------------------------------------------
\* TokenManager::start_refresh_task and the task it spawns

\* The loop retrying at once instead of sleeping the interval.
SleepUntilImmediate(t) == t

\* line 267, sleep(Duration::from_secs(3000)) begun at time t: when it ends.
SleepUntil(t) == t + RefreshIntervalSecs

\* lines 262-264: the task owns a clone of the manager (impl Clone, 287-299).
StartRefreshTask ==
    /\ tmConfigured
    /\ bgPc = "none"
    /\ tmLock = "free"
    /\ bg_access_token' = access_token
    /\ bg_token_expires_at' = token_expires_at
    /\ bgPc' = "sleep"
    /\ bgWake' = SleepUntil(now)
    /\ UNCHANGED auxVars
    /\ UNCHANGED <<serverVars, updVars, callVars, tmVars, envVars, histVars>>

\* lines 267-269, get_valid_token on the clone finds its token good.
BackgroundWakeCached ==
    /\ bgPc = "sleep"
    /\ now >= bgWake
    /\ UseCached(bg_access_token, bg_token_expires_at, now)
    /\ bgPc' = "verify"
    /\ UNCHANGED auxVars
    /\ UNCHANGED <<serverVars, updVars, callVars, tmVars, bg_access_token,
                   bg_token_expires_at, bgWake, envVars, histVars>>

\* lines 267-269, get_valid_token on the clone sends a refresh request.
BackgroundWakeRefresh ==
    /\ bgPc = "sleep"
    /\ now >= bgWake
    /\ ~UseCached(bg_access_token, bg_token_expires_at, now)
    /\ bgPc' = "refreshing"
    /\ UNCHANGED auxVars
    /\ UNCHANGED <<serverVars, updVars, callVars, tmVars, bg_access_token,
                   bg_token_expires_at, bgWake, envVars, histVars>>

\* The clone's refresh completes; lines 270-281.
BackgroundRefreshDone(out) ==
    /\ bgPc = "refreshing"
    /\ LET r == RefreshAccessToken(
                    [access_token |-> bg_access_token,
                     token_expires_at |-> bg_token_expires_at],
                    configToken, headersAuth, out, now,
                    config_attached, headers_attached)
       IN /\ bg_access_token' = r.access_token
          /\ bg_token_expires_at' = r.token_expires_at
          /\ configToken' = r.configToken
          /\ headersAuth' = r.headersAuth
          /\ bgPc' = IF r.res = "Ok" THEN "verify" ELSE "sleep"
          /\ bgWake' = IF r.res = "Ok" THEN bgWake ELSE SleepUntil(now)
    /\ UNCHANGED auxVars
    /\ UNCHANGED <<serverVars, updVars, callVars, tmVars, now, histVars>>

\* verify_token returns v (lines 271-276): either way a line is logged and the
\* loop sleeps again.
BackgroundVerifyDone(v) ==
    /\ bgPc = "verify"
    /\ bgPc' = "sleep"
    /\ bgWake' = SleepUntil(now)
    /\ UNCHANGED auxVars
    /\ UNCHANGED <<serverVars, updVars, callVars, tmVars, bg_access_token,
                   bg_token_expires_at, envVars, histVars>>

----------------------------------------------------------------------------
\* startup::initialize_with_token_refresh.  Its TokenManager is the one
\* built at step 2: tmVars are that manager's fields.

\* Everything but the startup call, the manager, the config file and the
\* background task.
startupFrame == <<serverVars, updVars, callVars, tmLock, config_attached,
                  headers_attached, now, headersAuth, histVars, listVars,
                  sweepVars, recVars, gateVars, extVars>>

\* char::is_whitespace on the one-byte characters.
IsWhitespace(b) == b \in {9, 10, 11, 12, 13, 32}

\* str::trim: the string without its leading and trailing whitespace.
RECURSIVE TrimStart(_)
TrimStart(str) ==
    IF str # <<>> /\ IsWhitespace(Head(str)) THEN TrimStart(Tail(str)) ELSE str

RECURSIVE TrimEnd(_)
TrimEnd(str) ==
    IF str # <<>> /\ IsWhitespace(str[Len(str)])
    THEN TrimEnd(SubSeq(str, 1, Len(str) - 1))
    ELSE str

Trim(str) == TrimEnd(TrimStart(str))

\* Refresh tokens and refresh URLs handed to TokenManager::new: strings of
\* spaces, tabs and the letter r.
ArgBytes == {32, 9, 114}

ArgStrings == SeqsUpTo(ArgBytes, MaxArgLen)

\* No TokenManager::new call has been made.
NoManager == [result |-> [tag |-> "none"]]

\* TokenManager::new with the checks of lines 42 and 50 written without trim.
TokenManagerNewNoTrim(refresh_token, refresh_url, client_ok) ==
    IF refresh_token = <<>> \/ refresh_url = <<>>
    THEN [tag |-> "Err", code |-> "INVALID_PARAMS"]
    ELSE IF ~client_ok
    THEN [tag |-> "Err", code |-> "INTERNAL_ERROR"]
    ELSE [tag |-> "Ok", refresh_token |-> refresh_token,
          refresh_url |-> refresh_url, access_token |-> NoToken,
          token_expires_at |-> NoExpiry, config_manager |-> FALSE,
          headers |-> FALSE]

\* TokenManager::new, token_manager.rs lines 40-82.  client_ok: whether
\* Client::builder()...build() succeeds (lines 58-71).
TokenManagerNew(refresh_token, refresh_url, client_ok) ==
    IF Trim(refresh_token) = <<>>
    THEN [tag |-> "Err", code |-> "INVALID_PARAMS"]
    ELSE IF Trim(refresh_url) = <<>>
    THEN [tag |-> "Err", code |-> "INVALID_PARAMS"]
    ELSE IF ~client_ok
    THEN [tag |-> "Err", code |-> "INTERNAL_ERROR"]
    ELSE [tag |-> "Ok", refresh_token |-> refresh_token,
          refresh_url |-> refresh_url, access_token |-> NoToken,
          token_expires_at |-> NoExpiry, config_manager |-> FALSE,
          headers |-> FALSE]

\* Step 1, lines 19-24: verify_config.
StartupVerifyConfig(config_ok) ==
    /\ startPc = "none"
    /\ configAtStart' = configToken
    /\ IF config_ok
       THEN /\ startPc' = "new_manager"
            /\ startResult' = startResult
       ELSE /\ startPc' = "done"
            /\ startResult' = "Err"
    /\ UNCHANGED <<startupFrame, access_token, token_expires_at, configToken,
                   bgVars, startToken, tmNew, envSetUp,
                   lastVerify>>

\* Step 2, line 27: TokenManager::new(refresh_token, refresh_url)?
StartupNewManager(refresh_token, refresh_url, client_ok) ==
    /\ startPc = "new_manager"
    /\ LET r == TokenManagerNew(refresh_token, refresh_url, client_ok)
       IN /\ tmNew' = [refresh_token |-> refresh_token,
                       refresh_url |-> refresh_url, result |-> r]
          /\ IF r.tag = "Ok"
             THEN /\ access_token' = r.access_token
                  /\ token_expires_at' = r.token_expires_at
                  /\ startPc' = "get_token"
                  /\ startResult' = startResult
             ELSE /\ UNCHANGED <<access_token, token_expires_at>>
                  /\ startPc' = "done"
                  /\ startResult' = "Err"
    /\ UNCHANGED <<startupFrame, configToken, bgVars, startToken, configAtStart,
                   envSetUp, lastVerify>>

\* Step 3, lines 30-33: get_valid_token on the new manager, which has no
\* token, no config manager and no shared headers, so it refreshes.
StartupGetToken(out) ==
    /\ startPc = "get_token"
    /\ LET r == RefreshAccessToken(
                    [access_token |-> access_token,
                     token_expires_at |-> token_expires_at],
                    configToken, headersAuth, out, now, FALSE, FALSE)
       IN /\ access_token' = r.access_token
          /\ token_expires_at' = r.token_expires_at
          /\ IF r.res = "Ok"
             THEN /\ startToken' = out.access_token
                  /\ startPc' = "update_config"
                  /\ startResult' = startResult
             ELSE /\ startToken' = startToken
                  /\ startPc' = "done"
                  /\ startResult' = "Err"
    /\ UNCHANGED <<startupFrame, configToken, bgVars, configAtStart, tmNew,
                   envSetUp, lastVerify>>

\* What the file system answers to update_auth_token.
FsOutcomes == {"ok", "read_err", "write_err"}

\* Step 4, lines 36-39: config_manager.update_auth_token(&new_token).
StartupUpdateConfig(fs) ==
    /\ startPc = "update_config"
    /\ IF fs = "ok"
       THEN /\ configToken' = UpdateAuthToken(configToken, startToken)
            /\ startPc' = "verify_token"
            /\ startResult' = startResult
       ELSE /\ configToken' = configToken
            /\ startPc' = "done"
            /\ startResult' = "Err"
    /\ UNCHANGED <<startupFrame, access_token, token_expires_at, bgVars,
                   startToken, configAtStart, tmNew, envSetUp,
                   lastVerify>>

\* What verify_token returns: Ok(true), Ok(false), or Err when the request
\* or the reading of its body fails.
VerifyOutcomes == {"valid", "invalid", "error"}

\* The call going on whatever verify_token returned.
AfterVerifyIgnored(v) == "start_task"

\* Step 5, lines 42-56: where the call goes once verify_token returned.
AfterVerify(v) == IF v = "valid" THEN "start_task" ELSE "done"

StartupVerifyToken(v) ==
    /\ startPc = "verify_token"
    /\ lastVerify' = v
    /\ startPc' = AfterVerify(v)
    /\ startResult' = IF startPc' = "done" THEN "Err" ELSE startResult
    /\ UNCHANGED <<startupFrame, access_token, token_expires_at, configToken,
                   bgVars, startToken, configAtStart, tmNew, envSetUp>>

\* Step 6, lines 58-60: start_refresh_task moves a clone of the manager
\* into the spawned task.
StartupStartTask ==
    /\ startPc = "start_task"
    /\ bgPc' = "sleep"
    /\ bg_access_token' = access_token
    /\ bg_token_expires_at' = token_expires_at
    /\ bgWake' = SleepUntil(now)
    /\ startPc' = "set_env"
    /\ UNCHANGED <<startupFrame, access_token, token_expires_at, configToken,
                   startResult, startToken, configAtStart, tmNew, envSetUp,
                   lastVerify>>

\* Step 7, lines 63-66: setup_environment_variables, then Ok(()).
StartupSetEnv ==
    /\ startPc = "set_env"
    /\ envSetUp' = TRUE
    /\ startPc' = "done"
    /\ startResult' = "Ok"
    /\ UNCHANGED <<startupFrame, access_token, token_expires_at, configToken,
                   bgVars, startToken, configAtStart, tmNew,
                   lastVerify>>

----------------------------------------------------------------------------
\* ConfigManager (config_manager.rs) on the text of the config file, a
\* sequence of bytes.

\* "Authorization: Bearer"
AuthorizationBearer ==
    <<65, 117, 116, 104, 111, 114, 105, 122, 97, 116, 105, 111, 110, 58, 32,
      66, 101, 97, 114, 101, 114>>

\* str::contains
Contains(str, pat) ==
    \E i \in 0..(Len(str) - Len(pat)) : SubSeq(str, i + 1, i + Len(pat)) = pat

\* Index of the first occurrence of pat in str, 0 when there is none.
FindFirst(str, pat) ==
    IF Contains(str, pat)
    THEN CHOOSE i \in 1..Len(str) :
            /\ SubSeq(str, i, i + Len(pat) - 1) = pat
            /\ \A j \in 1..(i - 1) : SubSeq(str, j, j + Len(pat) - 1) # pat
    ELSE 0

\* str::lines: the pieces between line feeds; a final line feed ends the last
\* line and starts no new one.
RECURSIVE Lines(_)
Lines(content) ==
    IF content = <<>> THEN <<>>
    ELSE LET k == FindFirst(content, <<10>>)
         IN IF k = 0 THEN <<content>>
            ELSE <<SubSeq(content, 1, k - 1)>>
                 \o Lines(SubSeq(content, k + 1, Len(content)))

\* .join("\n")
RECURSIVE JoinLines(_)
JoinLines(ls) ==
    IF ls = <<>> THEN <<>>
    ELSE IF Len(ls) = 1 THEN ls[1]
    ELSE ls[1] \o <<10>> \o JoinLines(Tail(ls))

\* line.chars().take_while(|c| c.is_whitespace()), lines 38-41
Indent(line) == SubSeq(line, 1, Len(line) - Len(TrimStart(line)))

\* The closure of lines 36-46.
RewriteLine(line, new_token) ==
    IF Contains(line, AuthorizationBearer)
    THEN Indent(line) \o AuthorizationBearer \o <<32>> \o new_token
    ELSE line

\* update_auth_token, lines 33-48: updated_content.
UpdatedContent(content, new_token) ==
    LET ls == Lines(content)
    IN JoinLines([i \in 1..Len(ls) |-> RewriteLine(ls[i], new_token)])

\* line.split("Bearer ").nth(1), line 77.
SplitNth1(line, sep) ==
    LET k == FindFirst(line, sep)
    IN IF k = 0 THEN [tag |-> "None"]
       ELSE LET rest == SubSeq(line, k + Len(sep), Len(line))
                e == FindFirst(rest, sep)
            IN [tag |-> "Some",
                value |-> IF e = 0 THEN rest ELSE SubSeq(rest, 1, e - 1)]

\* get_current_token, lines 75-83, on a file that could be read.
RECURSIVE FirstToken(_)
FirstToken(ls) ==
    IF ls = <<>> THEN [tag |-> "None"]
    ELSE IF /\ Contains(ls[1], AuthorizationBearer)
            /\ SplitNth1(ls[1], BearerPrefix).tag = "Some"
    THEN [tag |-> "Some", value |-> Trim(SplitNth1(ls[1], BearerPrefix).value)]
    ELSE FirstToken(Tail(ls))

GetCurrentToken(content) == FirstToken(Lines(content))

\* Lines a config file is made of: the Authorization header with and without
\* indentation, the header with a quoted value, another setting, a comment
\* naming the old token, an empty line.
ConfigLines ==
    { <<32, 32>> \o AuthorizationBearer \o <<32>> \o TokOld,
      AuthorizationBearer \o <<32>> \o TokOld,
      SubSeq(AuthorizationBearer, 1, 15) \o <<34>> \o BearerPrefix \o TokOld
          \o <<34>>,
      <<101>>,
      <<35, 32>> \o TokOld,
      <<>> }

\* Config files of up to MaxLines lines, ending with a line feed or not.
ConfigFiles ==
    { JoinLines(ls) \o nl : ls \in SeqsUpTo(ConfigLines, MaxLines),
                            nl \in {<<>>, <<10>>} }

\* The tokens written: the one the file holds, or a new one.
NewTokens == {TokOld, TokA, TokB}

NoUpdate == [res |-> "none"]

\* update_auth_token(new_token), lines 19-62; fs: what the file system answers.
UpdateAuthTokenFile(new_token, fs) ==
    /\ configFile' = IF fs = "ok" THEN UpdatedContent(configFile, new_token)
                     ELSE configFile
    /\ lastUpdate' = [res |-> IF fs = "ok" THEN "Ok" ELSE "Err",
                      before |-> configFile, token |-> new_token]
    /\ UNCHANGED <<serverVars, updVars, callVars, tmVars, bgVars, envVars,
                   histVars, listVars, sweepVars, recVars, gateVars, startVars,
                   bootVars, hdrVars, cloneVars>>

----------------------------------------------------------------------------
\* Starting::start (starting.rs lines 39-322).

HttpTransports == {"StreamableHttp", "SSE"}

Transports == HttpTransports \cup {"Stdio"}

\* config.cors: not enabled, enabled, or enabled with settings
\* build_cors_layer rejects.
CorsConfigs == {"disabled", "enabled", "invalid"}

\* The part of Config that start looks at for the listener and the health
\* check.  Transport::Stdio has no auth field.
StartConfigs ==
    { cfg \in [transport : Transports, auth : BOOLEAN, cors : CorsConfigs,
               health_enabled : BOOLEAN] :
        cfg.transport = "Stdio" => ~cfg.auth }

\* A router is the list of what a request goes through, innermost first.
\* with_auth!, lines 163-172.
WithAuth(router, auth) == IF auth THEN Append(router, "auth") ELSE router

\* with_cors!, lines 175-191.
WithCors(router, cors) ==
    IF cors = "disabled" THEN [tag |-> "Ok", router |-> router]
    ELSE IF cors = "enabled" THEN [tag |-> "Ok", router |-> Append(router, "cors")]
    ELSE [tag |-> "Err", cause |-> "cors"]

\* A health check built for both HTTP transports.
NewHealthCheckAnyHttp(transport, health_enabled) ==
    transport \in HttpTransports /\ health_enabled

\* lines 125-137: whether a HealthCheck is created.
NewHealthCheck(transport, health_enabled) ==
    transport = "StreamableHttp" /\ health_enabled

\* A bind whose failure goes unnoticed.
BindInfallible(transport_ok) == [tag |-> "Ok"]

\* lines 251 and 285, TcpListener::bind(..).await?, and lines 304-312 for the
\* standard streams.
Bind(transport_ok) ==
    IF transport_ok THEN [tag |-> "Ok"] ELSE [tag |-> "Err", cause |-> "bind"]

NoStart == [result |-> [tag |-> "none"]]

\* What start returns: Err, or the Running state with the listener spawned.
\* search_ok: whether Search::new (lines 107-117) succeeds when the search
\* tool is enabled.
StartingStart(cfg, batch, s, mode, en, search_ok, transport_ok) ==
    LET running == [operations |-> FilterMapCompile(batch, s, mode),
                    health_check |-> NewHealthCheck(cfg.transport,
                                                    cfg.health_enabled)]
        Ok(router) == [tag |-> "Ok", running |-> running,
                       listeners |-> <<[transport |-> cfg.transport,
                                        router |-> router,
                                        health_route |-> running.health_check]>>]
    IN
    IF SEARCH_TOOL_NAME \in en /\ ~search_ok
    THEN [tag |-> "Err", cause |-> "search"]
    ELSE IF cfg.transport = "StreamableHttp"
    THEN LET r == WithCors(WithAuth(<<"/mcp">>, cfg.auth), cfg.cors)
         IN IF r.tag = "Err" THEN r
            ELSE IF Bind(transport_ok).tag = "Err" THEN Bind(transport_ok)
            ELSE Ok(r.router)
    ELSE IF cfg.transport = "SSE"
    THEN IF Bind(transport_ok).tag = "Err" THEN Bind(transport_ok)
         ELSE Ok(WithAuth(<<"/sse">>, cfg.auth))
    ELSE IF Bind(transport_ok).tag = "Err" THEN Bind(transport_ok)
         ELSE Ok(<<"stdio">>)

\* Starting::start on the schema, mutation mode and tools of the
\* configuration and a batch of raw operations.
Start(cfg, batch, search_ok, transport_ok) ==
    /\ started = NoStart
    /\ LET r == StartingStart(cfg, batch, schema, mutation_mode, enabled,
                              search_ok, transport_ok)
       IN /\ started' = [config |-> cfg, batch |-> batch,
                         transport_ok |-> transport_ok,
                         customer_id |-> customerIdEnv, result |-> r]
          /\ operations' = IF r.tag = "Ok" THEN r.running.operations
                           ELSE operations
          /\ health_check' = IF r.tag = "Ok" THEN r.running.health_check
                             ELSE health_check
    /\ UNCHANGED <<schema, peers, enabled, mutation_mode, tmConfigured, opsLock,
                   schemaLock, updVars, callVars, tmVars, bgVars, envVars,
                   histVars, listVars, sweepVars, recorded, gateVars, startVars,
                   cfgVars, dispatched, hdrVars, cloneVars>>

\* Whether a request gets past one element of the router.  bearer_ok: the
\* request carries a bearer token the validator accepts.
PassesLayer(layer, bearer_ok) == IF layer = "auth" THEN bearer_ok ELSE TRUE

\* The listener spawned by start serves one HTTP request.
ServeHttp(headers, bearer_ok) ==
    /\ started.result.tag = "Ok"
    /\ started.config.transport \in HttpTransports
    /\ LET router == started.result.listeners[1].router
       IN dispatched' =
             IF \A i \in 1..Len(router) : PassesLayer(router[i], bearer_ok)
             THEN [kind |-> "dispatched", headers |-> headers]
             ELSE [kind |-> "rejected", headers |-> headers]
    /\ UNCHANGED <<serverVars, updVars, callVars, tmVars, bgVars, envVars,
                   histVars, listVars, sweepVars, recVars, gateVars, startVars,
                   cfgVars, started, hdrVars, cloneVars>>

\* Time passes.
TickSteps == {SafetyMarginSecs, RefreshIntervalSecs}

TicksTaken == (now \div RefreshIntervalSecs)
              + ((now % RefreshIntervalSecs) \div SafetyMarginSecs)

Tick(d) ==
    /\ TicksTaken < MaxTicks
    /\ now' = now + d
    /\ prevCall' = [prevCall EXCEPT !.age =
                       IF @ + d > 2 * SafetyMarginSecs THEN 2 * SafetyMarginSecs ELSE @ + d]
    /\ UNCHANGED auxVars
    /\ UNCHANGED <<serverVars, updVars, callVars, tmVars, bgVars, configToken,
                   headersAuth, lastResp>>

----------------------------------------------------------------------------
\* Specifications

\* No call_tool is in progress, no token manager activity has happened.
InitIdleBase ==
    /\ opsLock = "free"
    /\ schemaLock = "free"
    /\ updPc = "idle"
    /\ updLocal = <<>>
    /\ pc = [c \in Callers |-> "idle"]
    /\ req = [c \in Callers |-> ""]
    /\ result = [c \in Callers |-> "none"]
    /\ sentAuth = [c \in Callers |-> NoHeader]
    /\ tokRes = [c \in Callers |-> "none"]
    /\ joined = [c \in Callers |-> FALSE]
    /\ tmLock = "free"
    /\ bgPc = "none"
    /\ bg_access_token = NoToken
    /\ bg_token_expires_at = NoExpiry
    /\ bgWake = 0
    /\ now = 0
    /\ lastResp = NoResp
    /\ prevCall = NoCall
    /\ listed = NoList
    /\ lastSweep = NoSweep
    /\ recorded = [c \in Callers |-> NoRecord]
    /\ customerIdEnv = EnvUnset
    /\ tenantRouter = NoRouter
    /\ oauthRouter = NoRouter
    /\ gateReq = NoRequest
    /\ gateResp = NoResponse
    /\ startPc = "none"
    /\ startResult = "none"
    /\ startToken = NoToken
    /\ configAtStart = NoToken
    /\ tmNew = NoManager
    /\ envSetUp = FALSE
    /\ lastVerify = "none"
    /\ lastUpdate = NoUpdate
    /\ started = NoStart
    /\ dispatched = NoRequest
    /\ ctx = [c \in Callers |-> NoParts]
    /\ sentExtra = [c \in Callers |-> NoExtra]
    /\ uoPc = "idle"
    /\ uoArg = <<>>
    /\ uoLocal = <<>>
    /\ uoDuring = FALSE
    /\ uoPeers = <<>>
    /\ peersLock = "free"

\* ... and the text of the config file is not looked at.
InitIdle ==
    /\ InitIdleBase
    /\ configFile = <<>>
    /\ headersExtra = NoExtra
    /\ disable_auth_token_passthrough = FALSE

\* Starting::start, lines 40-161: the Running state built from the
\* configuration, the schema and a batch of raw operations; no token manager
\* (line 160).
Init ==
    /\ InitIdle
    /\ schema \in Schemas
    /\ mutation_mode \in MutationModes
    /\ enabled \in EnabledSets
    /\ health_check \in BOOLEAN
    /\ updKind = "start"
    /\ updArg \in Batches
    /\ operations = FilterMapCompile(updArg, schema, mutation_mode)
    /\ peers = <<>>
    /\ headersAuth = FormatBearer(TokOld)
    /\ configToken = TokOld
    /\ tmConfigured = FALSE
    /\ access_token = NoToken
    /\ token_expires_at = NoExpiry
    /\ config_attached = FALSE
    /\ headers_attached = FALSE

ServerCallers == {"c1"}

Next ==
    \/ \E s \in Schemas : UpdateSchemaRecompile(s)
    \/ UpdateSchemaWriteOperations
    \/ UpdateSchemaWriteSchema
    \/ \E batch \in UpdateBatches : UpdateOperationsCompile(batch)
    \/ UpdateOperationsWrite
    \/ NotifyToolListChanged
    \/ \E c \in ServerCallers, name \in RequestNames : CallToolStart(c, name)
    \/ \E c \in ServerCallers, argsOk \in BOOLEAN : Resolve(c, argsOk)
    \/ \E c \in ServerCallers : OperationLookup(c)
    \/ \E c \in ServerCallers, ok \in BOOLEAN : ExecuteDone(c, ok)

Spec == Init /\ [][Next]_vars

\* The same server with no tool calls in flight: only the schema and
\* operation updates of the file watchers.
NextUpdates ==
    \/ \E s \in Schemas : UpdateSchemaRecompile(s)
    \/ UpdateSchemaWriteOperations
    \/ UpdateSchemaWriteSchema
    \/ \E batch \in UpdateBatches : UpdateOperationsCompile(batch)
    \/ UpdateOperationsWrite
    \/ NotifyToolListChanged

SpecUpdates == Init /\ [][NextUpdates]_vars

\* Running built without a token manager (starting.rs line 160).
NoTokenManager ==
    /\ headersAuth = FormatBearer(TokOld)
    /\ configToken = TokOld
    /\ tmConfigured = FALSE
    /\ access_token = NoToken
    /\ token_expires_at = NoExpiry
    /\ config_attached = FALSE
    /\ headers_attached = FALSE

\* The operation files a watcher may hand to update_operations.
ListBatches == {<<>>, <<RawGetName, RawValid>>, TestBatch}

\* A client listing the tools while the watchers replace schema and
\* operations.
InitList ==
    /\ InitIdle
    /\ NoTokenManager
    /\ schema \in Schemas
    /\ mutation_mode = "None"
    /\ enabled \in EnabledSets
    /\ health_check = FALSE
    /\ updKind = "start"
    /\ updArg \in ListBatches
    /\ operations = FilterMapCompile(updArg, schema, mutation_mode)
    /\ peers = <<>>

NextList ==
    \/ \E s \in Schemas : UpdateSchemaRecompile(s)
    \/ UpdateSchemaWriteOperations
    \/ UpdateSchemaWriteSchema
    \/ \E batch \in ListBatches : UpdateOperationsCompile(batch)
    \/ UpdateOperationsWrite
    \/ NotifyToolListChanged
    \/ ListTools

SpecList == InitList /\ [][NextList]_vars

\* Two clients calling named operations and a client listing the tools while
\* a watcher replaces the operations.
NextReaders ==
    \/ \E c \in Callers, name \in {"Valid", "GetName"} : CallToolStart(c, name)
    \/ \E c \in Callers : Resolve(c, TRUE)
    \/ \E c \in Callers : OperationLookup(c)
    \/ \E c \in Callers, ok \in BOOLEAN : ExecuteDone(c, ok)
    \/ ListTools
    \/ \E batch \in ListBatches : UpdateOperationsCompile(batch)
    \/ UpdateOperationsWrite
    \/ NotifyToolListChanged

SpecReaders == InitList /\ [][NextReaders]_vars

\* Schema updates only, and a client listing the tools.
NextSchemas ==
    \/ \E s \in Schemas : UpdateSchemaRecompile(s)
    \/ UpdateSchemaWriteOperations
    \/ UpdateSchemaWriteSchema
    \/ NotifyToolListChanged
    \/ ListTools

SpecSchemas == InitList /\ [][NextSchemas]_vars

\* A client that lists the tools and calls them, with no update going on.
InitListed ==
    /\ InitIdle
    /\ NoTokenManager
    /\ schema \in Schemas
    /\ mutation_mode = "None"
    /\ enabled \in EnabledSets
    /\ health_check = FALSE
    /\ updKind = "start"
    /\ updArg \in Batches
    /\ operations = FilterMapCompile(updArg, schema, mutation_mode)
    /\ peers = <<>>

NextListed ==
    \/ ListTools
    \/ \E c \in ServerCallers, name \in RequestNames : CallToolStart(c, name)
    \/ \E c \in ServerCallers, argsOk \in BOOLEAN : Resolve(c, argsOk)
    \/ \E c \in ServerCallers : OperationLookup(c)
    \/ \E c \in ServerCallers, ok \in BOOLEAN : ExecuteDone(c, ok)

SpecListed == InitListed /\ [][NextListed]_vars

\* update_schema on one task and update_operations on a clone of Running,
\* side by side.
NextClones ==
    \/ \E s \in Schemas : UpdateSchemaRecompile(s)
    \/ UpdateSchemaWriteOperations
    \/ UpdateSchemaWriteSchema
    \/ NotifyToolListChanged
    \/ \E batch \in ListBatches : CloneUpdateOperationsCompile(batch)
    \/ CloneUpdateOperationsWrite
    \/ CloneSweepLock
    \/ CloneSweepDone

SpecClones == InitList /\ [][NextClones]_vars

\* Session ids and the other header: "s0", "s1", "s2", "x".
SessionZero == <<115, 48>>
SessionOne == <<115, 49>>
SessionTwo == <<115, 50>>
OtherValue == <<120>>

\* What an HTTP request brings to call_tool.
HttpParts ==
    [present : {TRUE}, valid_token : {NoToken, TokA},
     session_ids : {<<>>, <<SessionOne>>, <<SessionTwo, SessionOne>>}]

\* Calls of the execute tool and of a named operation, over HTTP and not,
\* on a server whose shared headers hold a session id or not.
InitHeaders ==
    /\ InitIdleBase
    /\ NoTokenManager
    /\ configFile = <<>>
    /\ headersExtra \in {NoExtra, [session |-> SessionZero, other |-> OtherValue]}
    /\ disable_auth_token_passthrough \in BOOLEAN
    /\ schema = 1
    /\ mutation_mode = "None"
    /\ enabled = {EXECUTE_TOOL_NAME}
    /\ health_check = FALSE
    /\ updKind = "start"
    /\ updArg = <<RawValid>>
    /\ operations = FilterMapCompile(updArg, schema, mutation_mode)
    /\ peers = <<>>

NextHeaders ==
    \/ \E name \in {EXECUTE_TOOL_NAME, "Valid"}, parts \in HttpParts \cup {NoParts} :
          CallToolBegin("c1", name, parts)
    \/ Resolve("c1", TRUE)
    \/ OperationLookup("c1")
    \/ \E ok \in BOOLEAN : ExecuteDone("c1", ok)

SpecHeaders == InitHeaders /\ [][NextHeaders]_vars

\* Two clients, one over HTTP with its own bearer token and session id, on
\* a server whose token manager writes the refreshed token into the shared
\* headers.
InitIsolation ==
    /\ InitIdleBase
    /\ configFile = <<>>
    /\ headersExtra \in {NoExtra, [session |-> SessionZero, other |-> OtherValue]}
    /\ disable_auth_token_passthrough \in BOOLEAN
    /\ schema = 1
    /\ mutation_mode = "None"
    /\ enabled = {EXECUTE_TOOL_NAME}
    /\ health_check = FALSE
    /\ updKind = "start"
    /\ updArg = <<RawValid>>
    /\ operations = FilterMapCompile(updArg, schema, mutation_mode)
    /\ peers = <<>>
    /\ headersAuth = FormatBearer(TokOld)
    /\ configToken = TokOld
    /\ tmConfigured = TRUE
    /\ access_token = NoToken
    /\ token_expires_at = NoExpiry
    /\ config_attached = TRUE
    /\ headers_attached = TRUE

\* What the two clients bring: the first a ValidToken 'a' and a session id,
\* the second no token, over HTTP or not.
CallerParts(c) ==
    IF c = "c1"
    THEN {[present |-> TRUE, valid_token |-> TokA, session_ids |-> <<SessionOne>>]}
    ELSE {NoParts,
          [present |-> TRUE, valid_token |-> NoToken, session_ids |-> <<SessionTwo>>]}

\* The refresh endpoint cannot be reached or grants token 'b'.
IsolationOutcomes ==
    {out \in RefreshOutcomes :
        \/ out.kind = "send_err"
        \/ /\ out.kind = "response"
           /\ out.access_token = TokB
           /\ out.expires_in = NoExpiresIn
           /\ out.persist_ok}

NextIsolation ==
    \/ \E c \in Callers, name \in {EXECUTE_TOOL_NAME, "Valid"} :
          \E parts \in CallerParts(c) : CallToolBegin(c, name, parts)
    \/ \E c \in Callers : GetValidTokenCached(c)
    \/ \E c \in Callers : RefreshSend(c)
    \/ \E c \in Callers, out \in IsolationOutcomes : RefreshDone(c, out)
    \/ \E c \in Callers : Resolve(c, TRUE)
    \/ \E c \in Callers : OperationLookup(c)
    \/ \E c \in Callers : ExecuteDone(c, TRUE)

SpecIsolation == InitIsolation /\ [][NextIsolation]_vars

\* Every handler that takes a lock, side by side: a client calling a named
\* operation through the token manager, a client listing the tools, a client
\* registering, update_schema, and update_operations with its sweep on a
\* clone of Running.
InitLocks ==
    /\ InitIsolation
    /\ headersExtra = NoExtra
    /\ ~disable_auth_token_passthrough

\* A client registers with a server that has no peer.
InitializeFirst == peers = <<>> /\ Initialize("p1")

\* The refresh endpoint answers with token 'b' and no lifetime.
GrantTokB == [kind |-> "response", access_token |-> TokB,
              expires_in |-> NoExpiresIn, persist_ok |-> TRUE]

NextLocks ==
    \/ \E c \in ServerCallers : CallToolStart(c, "Valid")
    \/ \E c \in ServerCallers : GetValidTokenCached(c)
    \/ \E c \in ServerCallers : RefreshSend(c)
    \/ \E c \in ServerCallers : RefreshDone(c, GrantTokB)
    \/ \E c \in ServerCallers : Resolve(c, TRUE)
    \/ \E c \in ServerCallers : OperationLookup(c)
    \/ \E c \in ServerCallers : ExecuteDone(c, TRUE)
    \/ ListTools
    \/ InitializeFirst
    \/ UpdateSchemaRecompile(1)
    \/ UpdateSchemaWriteOperations
    \/ UpdateSchemaWriteSchema
    \/ NotifyToolListChanged
    \/ CloneUpdateOperationsCompile(TestBatch)
    \/ CloneUpdateOperationsWrite
    \/ CloneSweepLock
    \/ CloneSweepDone

SpecLocks == InitLocks /\ [][NextLocks]_vars

\* Upstream calls return: the refresh request and the GraphQL request of a
\* named operation complete.  A task that needs no lock runs, and tokio's
\* Mutex and RwLock queue their waiters first-in first-out, so a task waiting
\* for a lock that keeps being released gets it.
FairLocks ==
    /\ \A c \in ServerCallers : WF_vars(RefreshDone(c, GrantTokB))
    /\ \A c \in ServerCallers : WF_vars(ExecuteDone(c, TRUE))
    /\ SF_vars(CloneUpdateOperationsWrite)
    /\ WF_vars(CloneSweepDone)

FairSpecLocks == SpecLocks /\ FairLocks

\* Clients connecting and being notified of the watchers' updates.
InitPeers ==
    /\ InitIdle
    /\ NoTokenManager
    /\ schema = 1
    /\ mutation_mode = "None"
    /\ enabled = {}
    /\ health_check = FALSE
    /\ updKind = "start"
    /\ updArg = TestBatch
    /\ operations = FilterMapCompile(updArg, schema, mutation_mode)
    /\ peers = <<>>

NextPeers ==
    \/ \E s \in Schemas : UpdateSchemaRecompile(s)
    \/ UpdateSchemaWriteOperations
    \/ UpdateSchemaWriteSchema
    \/ UpdateOperationsCompile(TestBatch)
    \/ UpdateOperationsWrite
    \/ NotifyToolListChanged
    \/ \E p \in PeerIds : Initialize(p)

SpecPeers == InitPeers /\ [][NextPeers]_vars

\* Clients registering while update_operations installs batches and sweeps
\* the registry.
NextRegistry ==
    \/ \E p \in PeerIds : Initialize(p)
    \/ \E batch \in ListBatches : CloneUpdateOperationsCompile(batch)
    \/ CloneUpdateOperationsWrite
    \/ CloneSweepLock
    \/ CloneSweepDone

SpecRegistry == InitPeers /\ [][NextRegistry]_vars

\* The HTTP gates in front of an idle server: the routers are built once,
\* the environment changes at any time, clients send requests.
InitGate == InitPeers

NextGate ==
    \/ \E v \in EnvValues : SetEnv(v)
    \/ EnableCustomerIdValidation
    \/ ReceiveRequest
    \/ \E header \in TenantHeaders : ReceiveHeader(header)
    \/ TenantRequest
    \/ \E resource \in Resources : EnableMiddleware(resource)
    \/ \E authorization \in AuthorizationValues, validates \in BOOLEAN :
          OauthRequest(authorization, validates)

SpecGate == InitGate /\ [][NextGate]_vars

\* The process starting up: initialize_with_token_refresh on a config file
\* that holds a token or has no Authorization line, then the background
\* task it started.
InitStartup ==
    /\ InitIdle
    /\ schema = 1
    /\ mutation_mode = "None"
    /\ enabled = {}
    /\ health_check = FALSE
    /\ updKind = "start"
    /\ updArg = <<>>
    /\ operations = <<>>
    /\ peers = <<>>
    /\ headersAuth = FormatBearer(TokOld)
    /\ configToken \in {TokOld, NoToken}
    /\ tmConfigured = FALSE
    /\ access_token = NoToken
    /\ token_expires_at = NoExpiry
    /\ config_attached = FALSE
    /\ headers_attached = FALSE

\* The credentials the process is started with: usable ones, a blank refresh
\* token, a blank refresh URL.
StartupArgs == {<<<<114>>, <<114>>>>, <<<<32>>, <<114>>>>, <<<<114>>, <<>>>>}

NextStartup ==
    \/ \E config_ok \in BOOLEAN : StartupVerifyConfig(config_ok)
    \/ \E args \in StartupArgs, client_ok \in BOOLEAN :
          StartupNewManager(args[1], args[2], client_ok)
    \/ \E out \in RefreshOutcomes : StartupGetToken(out)
    \/ \E fs \in FsOutcomes : StartupUpdateConfig(fs)
    \/ \E v \in VerifyOutcomes : StartupVerifyToken(v)
    \/ StartupStartTask
    \/ StartupSetEnv
    \/ BackgroundWakeCached
    \/ BackgroundWakeRefresh
    \/ \E out \in RefreshOutcomes : BackgroundRefreshDone(out)
    \/ \E v \in VerifyOutcomes : BackgroundVerifyDone(v)
    \/ \E d \in TickSteps : Tick(d)

SpecStartup == InitStartup /\ [][NextStartup]_vars

\* The first steps of startup for every refresh token and refresh URL of up
\* to MaxArgLen characters.
NextNew ==
    \/ \E config_ok \in BOOLEAN : StartupVerifyConfig(config_ok)
    \/ \E refresh_token \in ArgStrings, refresh_url \in ArgStrings,
          client_ok \in BOOLEAN :
          StartupNewManager(refresh_token, refresh_url, client_ok)
    \/ \E out \in RefreshOutcomes : StartupGetToken(out)

SpecNew == InitStartup /\ [][NextNew]_vars

\* The config manager alone, on every config file of ConfigFiles.
InitConfig ==
    /\ InitIdleBase
    /\ configFile \in ConfigFiles
    /\ headersExtra = NoExtra
    /\ disable_auth_token_passthrough = FALSE
    /\ schema = 1
    /\ mutation_mode = "None"
    /\ enabled = {}
    /\ health_check = FALSE
    /\ updKind = "start"
    /\ updArg = <<>>
    /\ operations = <<>>
    /\ peers = <<>>
    /\ headersAuth = FormatBearer(TokOld)
    /\ configToken = TokOld
    /\ tmConfigured = FALSE
    /\ access_token = NoToken
    /\ token_expires_at = NoExpiry
    /\ config_attached = FALSE
    /\ headers_attached = FALSE

NextConfig ==
    \E new_token \in NewTokens, fs \in FsOutcomes :
        UpdateAuthTokenFile(new_token, fs)

SpecConfig == InitConfig /\ [][NextConfig]_vars

\* The process from Starting to Running: the environment is set, start is
\* called once, then tools are called and HTTP requests served.
InitStart ==
    /\ InitIdle
    /\ schema = 1
    /\ mutation_mode = "None"
    /\ enabled \in {{}, BuiltinNames}
    /\ health_check = FALSE
    /\ updKind = "start"
    /\ updArg = <<>>
    /\ operations = <<>>
    /\ peers = <<>>
    /\ headersAuth = FormatBearer(TokOld)
    /\ configToken = TokOld
    /\ tmConfigured = FALSE
    /\ access_token = NoToken
    /\ token_expires_at = NoExpiry
    /\ config_attached = FALSE
    /\ headers_attached = FALSE

\* Requests with no tenant header, the expected one, another one.
StartRequests ==
    {<<>>, <<[name |-> NameXCompanyId, value |-> ValAc]>>,
     <<[name |-> NameXCompanyId, value |-> ValOther]>>}

NextStart ==
    \/ \E v \in {EnvUnset, [set |-> TRUE, bytes |-> ValAc]} :
          started = NoStart /\ SetEnv(v)
    \/ \E cfg \in StartConfigs, batch \in ListBatches, search_ok \in BOOLEAN,
          transport_ok \in BOOLEAN : Start(cfg, batch, search_ok, transport_ok)
    \/ \E headers \in StartRequests, bearer_ok \in BOOLEAN :
          ServeHttp(headers, bearer_ok)
    \/ \E name \in {"Valid", "nope"} :
          started.result.tag = "Ok" /\ CallToolStart("c1", name)
    \/ Resolve("c1", TRUE)
    \/ OperationLookup("c1")
    \/ \E ok \in BOOLEAN : ExecuteDone("c1", ok)

SpecStart == InitStart /\ [][NextStart]_vars

----------------------------------------------------------------------------
\* The server with a token manager behind call_tool: the manager is fresh from
\* TokenManager::new (lines 73-81), with or without set_config_manager and
\* set_headers applied, and wrapped in Running.token_manager.
InitToken ==
    /\ InitIdle
    /\ schema = 1
    /\ mutation_mode = "None"
    /\ enabled = {EXECUTE_TOOL_NAME}
    /\ health_check = TRUE
    /\ updKind = "start"
    /\ updArg = <<RawValid>>
    /\ operations = FilterMapCompile(updArg, schema, mutation_mode)
    /\ peers = <<>>
    /\ headersAuth = FormatBearer(TokOld)
    /\ configToken = TokOld
    /\ tmConfigured = TRUE
    /\ access_token = NoToken
    /\ token_expires_at = NoExpiry
    /\ config_attached \in BOOLEAN
    /\ headers_attached \in BOOLEAN

TokenRequestNames == {EXECUTE_TOOL_NAME}

\* One client calling tools through the token manager while time passes.
NextToken ==
    \/ \E c \in ServerCallers, name \in TokenRequestNames : CallToolStart(c, name)
    \/ \E c \in ServerCallers : GetValidTokenCached(c)
    \/ \E c \in ServerCallers : RefreshSend(c)
    \/ \E c \in ServerCallers, out \in RefreshOutcomes : RefreshDone(c, out)
    \/ \E c \in ServerCallers, argsOk \in BOOLEAN : Resolve(c, argsOk)
    \/ \E c \in ServerCallers, ok \in BOOLEAN : ExecuteDone(c, ok)
    \/ \E d \in TickSteps : Tick(d)

SpecToken == InitToken /\ [][NextToken]_vars

\* Concurrent clients and the background refresh task.  The refresh endpoint
\* either cannot be reached or grants a token with the default lifetime.
RaceOutcomes ==
    {out \in RefreshOutcomes :
        \/ out.kind = "send_err"
        \/ /\ out.kind = "response"
           /\ out.access_token = TokA
           /\ out.expires_in = NoExpiresIn
           /\ out.persist_ok}

NextRace ==
    \/ \E c \in Callers, name \in TokenRequestNames : CallToolStart(c, name)
    \/ \E c \in Callers : GetValidTokenCached(c)
    \/ \E c \in Callers : RefreshSend(c)
    \/ \E c \in Callers, out \in RaceOutcomes : RefreshDone(c, out)
    \/ \E c \in Callers, argsOk \in BOOLEAN : Resolve(c, argsOk)
    \/ \E c \in Callers, ok \in BOOLEAN : ExecuteDone(c, ok)
    \/ StartRefreshTask
    \/ BackgroundWakeCached
    \/ BackgroundWakeRefresh
    \/ \E out \in RaceOutcomes : BackgroundRefreshDone(out)
    \/ \E v \in VerifyOutcomes : BackgroundVerifyDone(v)
    \/ Tick(RefreshIntervalSecs)

\* main.rs lines 106-112 hand the manager both the config file and the shared
\* headers.
InitRace ==
    /\ InitToken
    /\ config_attached
    /\ headers_attached

SpecRace == InitRace /\ [][NextRace]_vars

\* The refresh endpoint cannot be reached, or grants one of two tokens with
\* the default lifetime.
CacheOutcomes ==
    {out \in RefreshOutcomes :
        \/ out.kind = "send_err"
        \/ /\ out.kind = "response"
           /\ out.access_token \in {TokA, TokB}
           /\ out.expires_in = NoExpiresIn
           /\ out.persist_ok}

\* One client calling tools through the shared manager while the background
\* task refreshes through its clone.
NextCache ==
    \/ \E c \in ServerCallers, name \in TokenRequestNames : CallToolStart(c, name)
    \/ \E c \in ServerCallers : GetValidTokenCached(c)
    \/ \E c \in ServerCallers : RefreshSend(c)
    \/ \E c \in ServerCallers, out \in CacheOutcomes : RefreshDone(c, out)
    \/ \E c \in ServerCallers : Resolve(c, TRUE)
    \/ \E c \in ServerCallers : ExecuteDone(c, TRUE)
    \/ StartRefreshTask
    \/ BackgroundWakeCached
    \/ BackgroundWakeRefresh
    \/ \E out \in CacheOutcomes : BackgroundRefreshDone(out)
    \/ BackgroundVerifyDone("valid")
    \/ Tick(RefreshIntervalSecs)

SpecCache == InitRace /\ [][NextCache]_vars

\* Every refresh succeeds and the response names no lifetime.
LoopOutcomes ==
    {out \in RefreshOutcomes :
        /\ out.kind = "response"
        /\ out.access_token \in {TokA, TokB}
        /\ out.expires_in = NoExpiresIn
        /\ out.persist_ok}

\* The manager of InitRace once its first get_valid_token, at time 0, has
\* succeeded: the token is cached, persisted and in the shared headers.
InitLoop ==
    /\ InitIdle
    /\ schema = 1
    /\ mutation_mode = "None"
    /\ enabled = {}
    /\ health_check = FALSE
    /\ updKind = "start"
    /\ updArg = <<>>
    /\ operations = <<>>
    /\ peers = <<>>
    /\ tmConfigured = TRUE
    /\ config_attached \in BOOLEAN
    /\ headers_attached = TRUE
    /\ \E out \in LoopOutcomes :
          LET r == RefreshAccessToken(
                       [access_token |-> NoToken, token_expires_at |-> NoExpiry],
                       TokOld, FormatBearer(TokOld), out, 0, config_attached,
                       TRUE)
          IN /\ access_token = r.access_token
             /\ token_expires_at = r.token_expires_at
             /\ configToken = r.configToken
             /\ headersAuth = r.headersAuth

\* Time passes while the task is being started, for no longer than the
\* safety margin, and while the loop sleeps, until its sleep is over: the
\* loop wakes on time and its requests are answered at once.
LoopTick(d) ==
    /\ \/ bgPc = "none" /\ now + d <= SafetyMarginSecs
       \/ bgPc = "sleep" /\ now + d <= bgWake
    /\ Tick(d)

\* After that first refresh only the background loop asks for tokens.
NextLoop ==
    \/ StartRefreshTask
    \/ BackgroundWakeCached
    \/ BackgroundWakeRefresh
    \/ \E out \in LoopOutcomes : BackgroundRefreshDone(out)
    \/ \E v \in VerifyOutcomes : BackgroundVerifyDone(v)
    \/ \E d \in TickSteps : LoopTick(d)

SpecLoop == InitLoop /\ [][NextLoop]_vars

\* Concurrent clients alone.
NextCalls ==
    \/ \E c \in Callers, name \in TokenRequestNames : CallToolStart(c, name)
    \/ \E c \in Callers : GetValidTokenCached(c)
    \/ \E c \in Callers : RefreshSend(c)
    \/ \E c \in Callers, out \in RaceOutcomes : RefreshDone(c, out)
    \/ \E c \in Callers, argsOk \in BOOLEAN : Resolve(c, argsOk)
    \/ \E c \in Callers, ok \in BOOLEAN : ExecuteDone(c, ok)
    \/ Tick(RefreshIntervalSecs)

\* tokio's Mutex queues its waiters first-in first-out, so a task waiting for
\* the manager gets it; the refresh request is bounded by the HTTP client's
\* 30 s timeout (TokenManager::new), so it completes.
\* A task that is runnable runs: the match of call_tool is reached once the
\* manager's guard is dropped.
FairCalls ==
    /\ \A c \in Callers : SF_vars(GetValidTokenCached(c) \/ RefreshSend(c))
    /\ \A c \in Callers : WF_vars(\E out \in RaceOutcomes : RefreshDone(c, out))
    /\ \A c \in Callers : WF_vars(\E argsOk \in BOOLEAN : Resolve(c, argsOk))

FairSpecCalls == InitRace /\ [][NextCalls]_vars /\ FairCalls

----------------------------------------------------------------------------
\* Properties

RefreshesInFlight ==
    Cardinality({c \in Callers : pc[c] = "tm_refresh"})
    + (IF bgPc = "refreshing" THEN 1 ELSE 0)

\* C1: whenever the operations and the schema can be locked by a reader, every
\* compiled operation held was compiled against the schema held.
C1_OperationsMatchSchema ==
    (opsLock = "free" /\ schemaLock = "free")
        => \A i \in 1..Len(operations) : operations[i].schema = schema

C3_FailedRefreshKeepsCache ==
    [][\A c \in Callers :
          (pc[c] = "tm_refresh" /\ tokRes'[c] = "error")
              => /\ access_token' = access_token
                 /\ token_expires_at' = token_expires_at]_vars

Compiles(raw) == IntoOperation(raw, schema, mutation_mode).tag = "Some"

C5_ExactlyTheValidOperations ==
    (updKind \in {"start", "update_operations"} /\ updPc \in {"notify", "idle"})
        => LET good == SelectSeq(updArg, Compiles)
           IN /\ Len(operations) = Len(good)
              /\ \A i \in 1..Len(good) :
                    /\ operations[i].raw = good[i]
                    /\ operations[i].name = good[i].name
                    /\ operations[i].schema = schema

C5_Witness ==
    /\ updKind = "update_operations"
    /\ updPc = "idle"
    /\ updArg = TestBatch
    /\ Len(operations) = 1
    /\ operations[1].name = "Valid"

\* C6: get_valid_token returns the cached token without a network call if and
\* only if a token is cached and its expiry is strictly more than 300 s after
\* the current instant; otherwise it sends a refresh request and returns the
\* refreshed token or the refresh error.
StrictlyFresh ==
    /\ access_token # NoToken
    /\ token_expires_at # NoExpiry
    /\ token_expires_at > now + 300

C6_CachedIffStrictlyFresh ==
    [][\A c \in Callers :
          /\ (pc[c] = "tm_wait" /\ pc'[c] # "tm_wait")
                => IF StrictlyFresh
                   THEN /\ tokRes'[c] = "cached"
                        /\ pc'[c] = "resolve"
                        /\ RefreshesInFlight' = RefreshesInFlight
                        /\ access_token' = access_token
                   ELSE /\ pc'[c] = "tm_refresh"
                        /\ RefreshesInFlight' = RefreshesInFlight + 1
          /\ (pc[c] = "tm_refresh" /\ pc'[c] # "tm_refresh")
                => tokRes'[c] \in {"refreshed", "error"}]_vars

C6_Witness ==
    \E c \in Callers :
        /\ pc[c] = "tm_refresh"
        /\ access_token # NoToken
        /\ token_expires_at = now + 300

C8_SuccessfulRefreshInstallsToken ==
    [][\A c \in Callers :
          /\ (pc[c] = "tm_refresh" /\ tokRes'[c] = "refreshed")
                => /\ lastResp'.kind = "done"
                   /\ access_token' = lastResp'.access_token
                   /\ token_expires_at' =
                         now + (IF lastResp'.expires_in = NoExpiresIn
                                THEN 3600 ELSE lastResp'.expires_in)
                   /\ config_attached => configToken' = lastResp'.access_token
                   /\ headers_attached =>
                         headersAuth' = <<66, 101, 97, 114, 101, 114, 32>>
                                            \o lastResp'.access_token
          /\ (pc[c] = "resolve" /\ pc'[c] = "executing" /\ req[c] = EXECUTE_TOOL_NAME)
                => sentAuth'[c] = headersAuth]_vars

C8_Witness ==
    \E c \in Callers :
        /\ pc[c] = "executing"
        /\ tokRes[c] = "refreshed"
        /\ config_attached
        /\ headers_attached
        /\ access_token = TokB
        /\ configToken = TokB
        /\ sentAuth[c] = <<66, 101, 97, 114, 101, 114, 32, 98>>

\* C9: a call_tool whose proactive get_valid_token fails is not failed by it:
\* every call_tool that consults the token manager reaches the dispatch of
\* its tool, also when every refresh fails.
Dispatched(c) == pc[c] \in {"executing", "done"} /\ result[c] # "token_error"

C9_CallReachesDispatch ==
    \A c \in Callers : (pc[c] \in {"tm_wait", "tm_refresh"}) ~> Dispatched(c)

C9_Witness ==
    \E c \in Callers :
        /\ pc[c] = "executing"
        /\ tokRes[c] = "error"
        /\ access_token = NoToken
        /\ sentAuth[c] = FormatBearer(TokOld)

\* C10: call_tool answers "Tool <name> not found" if and only if the name is
\* neither an enabled built-in tool nor the name of a compiled operation held.
C10_NotFoundIffUnknown ==
    [][\A c \in Callers :
          (pc[c] \in {"resolve", "op_wait"} /\ pc'[c] \in {"executing", "done"})
              => ((result'[c] = "not_found")
                     <=> /\ req[c] \notin (BuiltinNames \cap enabled)
                         /\ \A i \in 1..Len(operations) :
                               operations[i].name # req[c])]_vars

\* C11: every list_tools returns exactly the compiled operations held at the
\* time of the call, in held order, followed by the enabled built-in tools;
\* a list_tools after update_schema or update_operations has replaced the
\* set returns the operations that update installed.
IsListingOf(l, ops, en) ==
    /\ Len(l) = Len(ops) + Cardinality(en)
    /\ \A i \in 1..Len(ops) :
          /\ ~l[i].builtin
          /\ l[i].name = ops[i].name
          /\ l[i].schema = ops[i].schema
    /\ \A i \in (Len(ops) + 1)..Len(l) : l[i].builtin
    /\ {l[i].name : i \in (Len(ops) + 1)..Len(l)} = en

C11_ListToolsIsFresh ==
    [][listed' # listed
          => /\ IsListingOf(listed', operations, enabled)
             /\ (updKind # "start" /\ updPc \in {"notify", "idle"})
                   => IsListingOf(listed', updLocal, enabled)]_vars

C11_Witness ==
    /\ updKind = "update_schema"
    /\ updPc = "idle"
    /\ schema = 2
    /\ enabled = {EXECUTE_TOOL_NAME}
    /\ Len(listed) = 2
    /\ listed[1] = [name |-> "Valid", schema |-> 2, builtin |-> FALSE]
    /\ listed[2].name = EXECUTE_TOOL_NAME

\* C12: when a notification sweep completes, every registry entry whose
\* transport was closed or whose notification failed with a transport-send
\* or transport-closed error is gone, and every entry whose notification
\* failed with another error is still there.
SweepStep == updPc = "notify" /\ updPc' = "idle"

DroppedAnswers == {"closed", "transport_send", "transport_closed"}

Entries(ps, p) == {i \in 1..Len(ps) : ps[i] = p}

AnsweredIn(p, answers) == {i \in Entries(peers, p) : lastSweep'[i] \in answers}

C12_SweepPrunesDeadPeers ==
    [][SweepStep
          => \A p \in PeerIds :
                /\ Cardinality(Entries(peers', p))
                      <= Cardinality(AnsweredIn(p, PeerOutcomes \ DroppedAnswers))
                /\ Cardinality(Entries(peers', p))
                      >= Cardinality(AnsweredIn(p, {"other_err"}))
                /\ (AnsweredIn(p, PeerOutcomes \ DroppedAnswers) = {})
                      => Entries(peers', p) = {}]_vars

C12_Witness ==
    /\ updPc = "idle"
    /\ lastSweep = <<"transport_send", "other_err">>
    /\ Len(peers) = 1

\* C13: the registry changes only by initialize appending the new peer at
\* the end (an already registered peer included) and by a sweep removing
\* peers; a sweep keeps every peer that is open and was notified, adds and
\* duplicates none, and keeps the registration order.
RECURSIVE IsSubsequence(_, _)
IsSubsequence(a, b) ==
    IF a = <<>> THEN TRUE
    ELSE IF b = <<>> THEN FALSE
    ELSE IF Head(a) = Head(b) THEN IsSubsequence(Tail(a), Tail(b))
    ELSE IsSubsequence(a, Tail(b))

C13_RegistryGrowsAndShrinks ==
    [][/\ SweepStep
          => /\ IsSubsequence(peers', peers)
             /\ \A p \in PeerIds :
                   Cardinality(Entries(peers', p))
                       >= Cardinality(AnsweredIn(p, {"ok"}))
       /\ (peers' # peers /\ ~SweepStep)
          => \E p \in PeerIds : peers' = Append(peers, p)]_vars

C13_Witness ==
    /\ updPc = "idle"
    /\ lastSweep = <<"ok", "closed">>
    /\ peers = <<"p2">>

\* C14: update_schema(new) leaves the server holding new as its schema and,
\* as its operations, exactly the operations held before that recompile
\* against new, in the same order and compiled against new; the ones that
\* do not recompile are dropped and the update goes on to its notification.
RecompiledAgainst(ops, new) ==
    LET CompilesAgainstNew(op) ==
            IntoOperation(op.raw, new, mutation_mode).tag = "Some"
        kept == SelectSeq(ops, CompilesAgainstNew)
    IN [i \in 1..Len(kept) |-> [kept[i] EXCEPT !.schema = new]]

C14_UpdateSchemaKeepsRecompiled ==
    [][/\ (updPc = "us_write_ops" /\ updPc' # updPc)
          => /\ operations' = RecompiledAgainst(operations, updArg)
             /\ updPc' = "us_write_schema"
       /\ (updPc = "us_write_schema" /\ updPc' # updPc)
          => /\ schema' = updArg
             /\ operations' = operations
             /\ \A i \in 1..Len(operations') : operations'[i].schema = schema'
             /\ updPc' = "notify"]_vars

C14_Witness ==
    /\ updKind = "update_schema"
    /\ updPc = "notify"
    /\ schema = 2
    /\ Len(listed) >= 2
    /\ listed[1] = [name |-> "GetName", schema |-> 1, builtin |-> FALSE]
    /\ listed[2] = [name |-> "Valid", schema |-> 1, builtin |-> FALSE]
    /\ operations = <<[raw |-> RawValid, name |-> "Valid", schema |-> 2]>>

\* C15: update_schema replaces the schema first and the operations second,
\* and both updates notify the peers only once the new state is installed,
\* so that a list_tools made in reaction to the notification returns the new
\* operations.
C15_SchemaFirstThenOperationsThenNotify ==
    [][/\ (updPc = "us_write_ops" /\ updPc' = "us_write_schema")
          => schema = updArg
       /\ SweepStep
          => /\ operations = updLocal
             /\ updKind = "update_schema" => schema = updArg
       /\ (listed' # listed /\ updKind # "start" /\ updPc = "idle")
          => IsListingOf(listed', updLocal, enabled)]_vars

\* C16: with the tenant gate installed for E, a request reaches the inner
\* handler if and only if it carries an X-Company-ID header (name matched
\* without regard to case) whose value is readable text equal to E, case
\* included; every other request is answered 401 and the handler is not
\* invoked.
IsReadableText(value) ==
    \A i \in 1..Len(value) : (value[i] >= 32 /\ value[i] < 127) \/ value[i] = 9

CompanyIdLines(headers) ==
    {i \in 1..Len(headers) : LowerName(headers[i].name) = NameLowerXCompanyId}

TenantGateAnswered ==
    /\ gateReq.kind = "tenant"
    /\ tenantRouter.built
    /\ tenantRouter.layer

C16_PassesIffSomeHeaderMatches ==
    TenantGateAnswered
        => /\ gateResp.handler
                <=> \E i \in CompanyIdLines(gateReq.headers) :
                       /\ IsReadableText(gateReq.headers[i].value)
                       /\ gateReq.headers[i].value = tenantRouter.expected
           /\ ~gateResp.handler => gateResp.status = 401

\* C16 as amended: the header that counts is the first X-Company-ID line of
\* the request.
C16_PassesIffFirstHeaderMatches ==
    TenantGateAnswered
        => /\ gateResp.handler
                <=> /\ CompanyIdLines(gateReq.headers) # {}
                    /\ LET first == CHOOSE i \in CompanyIdLines(gateReq.headers) :
                                        \A j \in CompanyIdLines(gateReq.headers) : i <= j
                       IN /\ IsReadableText(gateReq.headers[first].value)
                          /\ gateReq.headers[first].value = tenantRouter.expected
           /\ ~gateResp.handler => gateResp.status = 401

C16_Witness ==
    /\ TenantGateAnswered
    /\ tenantRouter.expected = ValAc
    /\ gateReq.headers = <<[name |-> NameXCompanyId, value |-> ValOther],
                           [name |-> NameLowerXCompanyId, value |-> ValAc]>>
    /\ gateResp.status = 401
    /\ ~gateResp.handler

\* C17: enable_customer_id_validation installs the tenant layer if and only
\* if CUSTOMER_ID is set to a non-empty value when it is called; without the
\* layer no header is inspected and every request reaches the handler.
C17_LayerIffEnvSetNonEmpty ==
    tenantRouter.built
        => /\ tenantRouter.layer
                <=> (tenantRouter.env.set /\ tenantRouter.env.bytes # <<>>)
           /\ (~tenantRouter.layer /\ gateReq.kind = "tenant")
                => (gateResp.handler /\ gateResp.status = 200)

\* C18: behind the bearer gate a request without an Authorization: Bearer
\* header and a request whose token fails validation are both answered 401
\* with a Bearer challenge whose resource_metadata is the configured
\* resource URL with the path /.well-known/oauth-protected-resource; the
\* handler runs only for a validated token and finds that token attached.
CarriesBearer(authorization) ==
    /\ authorization.present
    /\ Len(authorization.value) > 7
    /\ SubSeq(authorization.value, 1, 7) = <<66, 101, 97, 114, 101, 114, 32>>

C19_ErrorsAreRecorded ==
    [][\A c \in Callers :
          (pc[c] # "done" /\ pc'[c] = "done" /\ result'[c] \in ErrorResults)
              => /\ health_check => recorded'[c].rejection
                 /\ recorded'[c].telemetry
                 /\ recorded'[c].tool_name = req[c]
                 /\ ~recorded'[c].success]_vars

\* C20: if initialize_with_token_refresh returns an error at any step, the
\* config file still holds the token it held before the call and no
\* background refresh task has been started.
C20_FailedStartupLeavesConfig ==
    (startPc = "done" /\ startResult = "Err")
        => /\ configToken = configAtStart
           /\ bgPc = "none"

----------------------------------------------------------------------------
\* C21: once started the background refresh loop never ends; an attempt
\* (get_valid_token) starts only when the sleep of 3000 s begun at the end of
\* the previous iteration is over; verify_token is called only with a token
\* get_valid_token returned; a failed refresh or any verification outcome
\* sends the loop back to a full sleep of 3000 s, never to an immediate retry.
\* Checked under SpecStartup.
C21_LoopStep ==
    /\ bgPc # "none" => bgPc' \in {"sleep", "refreshing", "verify"}
    /\ (bgPc = "sleep" /\ bgPc' # "sleep") =>
          /\ now >= bgWake
          /\ bgPc' \in {"refreshing", "verify"}
    /\ (bgPc # "verify" /\ bgPc' = "verify") =>
          /\ bgPc \in {"sleep", "refreshing"}
          /\ bg_access_token' # NoToken
    /\ (bgPc = "refreshing" /\ bgPc' # "refreshing") =>
          bgPc' \in {"verify", "sleep"}
    /\ (bgPc = "verify" /\ bgPc' # "verify") => bgPc' = "sleep"
    /\ (bgPc # "sleep" /\ bgPc' = "sleep") =>
          bgWake' = now' + RefreshIntervalSecs
    /\ (bgPc = "sleep" /\ bgPc' = "sleep") => bgWake' = bgWake

C21_RefreshLoopSleepsBeforeEachAttempt == [][C21_LoopStep]_vars

\* The loop is at its second attempt, two intervals after it started, and
\* holds the token an earlier failed refresh of its own left behind.
C21_Witness ==
    /\ bgPc = "refreshing"
    /\ now >= 2 * RefreshIntervalSecs
    /\ bg_access_token = TokBad

----------------------------------------------------------------------------
\* A string that is empty or made of whitespace only.
IsBlank(str) == \A i \in 1..Len(str) : str[i] \in {9, 10, 11, 12, 13, 32}

\* The manager TokenManager::new is to return for the given credentials: no
\* cached token, no expiry, nothing attached.
EmptyManager(refresh_token, refresh_url) ==
    [tag |-> "Ok", refresh_token |-> refresh_token, refresh_url |-> refresh_url,
     access_token |-> NoToken, token_expires_at |-> NoExpiry,
     config_manager |-> FALSE, headers |-> FALSE]

\* No request has been sent for the manager: nothing cached, no token handed
\* to startup.
NoNetworkActivity == access_token = NoToken /\ startToken = NoToken

\* C22 as stated: TokenManager::new returns an error exactly when the refresh
\* token or the refresh URL is blank, and otherwise a manager in the Empty
\* state holding the given credential and URL.
C22_ErrIffBlankElseEmptyManager ==
    tmNew # NoManager =>
        IF IsBlank(tmNew.refresh_token) \/ IsBlank(tmNew.refresh_url)
        THEN tmNew.result.tag = "Err" /\ NoNetworkActivity
        ELSE tmNew.result = EmptyManager(tmNew.refresh_token, tmNew.refresh_url)

\* C22 amended: TokenManager::new returns an INVALID_PARAMS error, before any
\* network activity, when the refresh token or the refresh URL is blank;
\* otherwise it returns either an INTERNAL_ERROR, when the HTTP client could
\* not be built, or a manager in the Empty state holding the given
\* credential and URL.  Checked under SpecNew.
C22_BlankIsInvalidElseEmptyManagerOrClientError ==
    tmNew # NoManager =>
        IF IsBlank(tmNew.refresh_token) \/ IsBlank(tmNew.refresh_url)
        THEN /\ tmNew.result = [tag |-> "Err", code |-> "INVALID_PARAMS"]
             /\ NoNetworkActivity
        ELSE \/ tmNew.result = EmptyManager(tmNew.refresh_token, tmNew.refresh_url)
             \/ /\ tmNew.result = [tag |-> "Err", code |-> "INTERNAL_ERROR"]
                /\ NoNetworkActivity

\* TokenManager::new has refused a refresh token made of whitespace only.
C22_Witness ==
    /\ tmNew # NoManager
    /\ tmNew.refresh_token # <<>>
    /\ IsBlank(tmNew.refresh_token)
    /\ ~IsBlank(tmNew.refresh_url)
    /\ tmNew.result.tag = "Err"
    /\ startResult = "Err"

----------------------------------------------------------------------------
\* C24: after update_auth_token(t) has succeeded, every line of the file that
\* held "Authorization: Bearer" is its leading whitespace followed by
\* "Authorization: Bearer t", every other line is as it was,
\* get_current_token returns t, and the token the file held before, when it
\* differs from t, occurs nowhere in the file.
C24_RewritesAuthorizationLinesOnly ==
    lastUpdate.res = "Ok" =>
        LET before == Lines(lastUpdate.before)
            after == Lines(configFile)
            t == lastUpdate.token
            previous == GetCurrentToken(lastUpdate.before)
        IN /\ \A i \in (DOMAIN before) \cap (DOMAIN after) :
                 IF Contains(before[i], AuthorizationBearer)
                 THEN after[i] = Indent(before[i]) \o AuthorizationBearer
                                     \o <<32>> \o t
                 ELSE after[i] = before[i]
           /\ GetCurrentToken(configFile) = [tag |-> "Some", value |-> t]
           /\ (previous.tag = "Some" /\ previous.value # t)
                 => ~Contains(configFile, previous.value)

----------------------------------------------------------------------------
\* The Running state start returned is the one in use.
RunningIsReturned ==
    /\ operations = started.result.running.operations
    /\ health_check = started.result.running.health_check

\* C23: when the listening socket cannot be bound, start returns an error and
\* there is no Running state and no listener; start returns an error only
\* when the search index, the CORS layer or the transport fails, whatever the
\* raw operations are; and when it returns Ok the Running state holds exactly
\* the raw operations of the batch that compile, in their order.
\* Checked under SpecStart.
C23_BindFailureIsFatalCompileFailureIsNot ==
    started # NoStart =>
        /\ (started.config.transport \in HttpTransports /\ ~started.transport_ok)
              => /\ started.result.tag = "Err"
                 /\ operations = <<>>
        /\ started.result.tag = "Err"
              => \/ ~started.transport_ok
                 \/ started.result.cause = "search" /\ SEARCH_TOOL_NAME \in enabled
                 \/ /\ started.result.cause = "cors"
                    /\ started.config.cors = "invalid"
                    /\ started.config.transport = "StreamableHttp"
        /\ started.result.tag = "Ok"
              => /\ RunningIsReturned
                 /\ IsSubsequence(IntoInner(operations), started.batch)
                 /\ \A k \in 1..Len(started.batch) :
                       IntoOperation(started.batch[k], schema, mutation_mode).tag
                           = "Some"
                       <=> \E j \in 1..Len(operations) :
                              operations[j].raw = started.batch[k]

\* start has returned Running from a batch holding an operation that does not
\* compile, with the operations that do.
C23_Witness ==
    /\ started # NoStart
    /\ started.result.tag = "Ok"
    /\ started.batch = TestBatch
    /\ Len(operations) >= 1
    /\ Len(operations) < Len(started.batch)

\* C25: for both HTTP transports, start spawns exactly one listener, of the
\* configured transport, whose router is wrapped with the bearer gate exactly
\* when auth is configured and with the CORS layer exactly when CORS is
\* enabled.
C25_ListenerWrappedWithAuthAndCors ==
    (started.result.tag = "Ok" /\ started.config.transport \in HttpTransports) =>
        /\ Len(started.result.listeners) = 1
        /\ LET l == started.result.listeners[1]
               Wrapped(layer) == \E i \in 1..Len(l.router) : l.router[i] = layer
           IN /\ l.transport = started.config.transport
              /\ Wrapped("auth") <=> started.config.auth
              /\ Wrapped("cors") <=> started.config.cors # "disabled"

\* C26: when CUSTOMER_ID names a tenant at the time start is called, every
\* HTTP request the started listener dispatches to the Running server carries
\* that tenant in its X-Company-ID header.
C26_NoDispatchWithoutTenant ==
    LET customer_id == EnvVar(started.customer_id)
    IN (/\ dispatched.kind = "dispatched"
        /\ customer_id.tag = "Ok"
        /\ customer_id.val # <<>>)
       => CustomerIdValidate(customer_id.val, dispatched.headers).handler

\* C29: the Running state start returned has a health check exactly when the
\* transport is streaming-HTTP and health checking is enabled; with the SSE
\* and standard-stream transports no call_tool result records a rejection.
\* Checked under SpecStart.
C29_HealthCheckOnlyForStreamableHttp ==
    started.result.tag = "Ok" =>
        /\ health_check <=> (/\ started.config.transport = "StreamableHttp"
                             /\ started.config.health_enabled)
        /\ started.config.transport \in {"SSE", "Stdio"}
              => \A c \in Callers : ~recorded[c].rejection

\* A tool call has failed on a server started on SSE with health checking
\* enabled in the configuration: its telemetry is recorded, no rejection.
C29_Witness ==
    /\ started.result.tag = "Ok"
    /\ started.config.transport = "SSE"
    /\ started.config.health_enabled
    /\ result["c1"] = "tool_error"
    /\ recorded["c1"].telemetry
    /\ ~recorded["c1"].rejection

----------------------------------------------------------------------------
\* C27: readers of the operation set do not exclude each other: while a
\* call_tool holds the set to look up and run a named operation, list_tools
\* can read it, and so can the lookup of another call_tool.
C27_ReadersShareTheOperationSet ==
    \A c \in Callers :
        (pc[c] = "executing" /\ opsLock = c) =>
            /\ ENABLED ListTools
            /\ \A d \in Callers \ {c} :
                  pc[d] = "op_wait" => ENABLED OperationLookup(d)

----------------------------------------------------------------------------
\* C28: the headers the execute tool and a named operation send upstream
\* are the shared headers, except that Authorization is the caller's
\* validated bearer token exactly when passthrough is not disabled and the
\* request carries a ValidToken, and mcp-session-id is the inbound value
\* exactly when the inbound HTTP request has that header.
\* Checked under SpecHeaders.
C28_UpstreamHeadersAreSharedPlusOverlay ==
    \A c \in Callers :
        pc[c] \in {"op_wait", "executing"} =>
            LET carries_token == ctx[c].present /\ ctx[c].valid_token # NoToken
                has_session == ctx[c].present /\ ctx[c].session_ids # <<>>
            IN /\ sentAuth[c] =
                     IF ~disable_auth_token_passthrough /\ carries_token
                     THEN BearerPrefix \o ctx[c].valid_token
                     ELSE headersAuth
               /\ sentExtra[c].session =
                     IF has_session THEN ctx[c].session_ids[1]
                     ELSE headersExtra.session
               /\ sentExtra[c].other = headersExtra.other

\* A named operation is being executed for an HTTP request that carries a
\* ValidToken and a session id, on a server with passthrough disabled whose
\* shared headers hold another session id: the shared Authorization and the
\* inbound session id are sent.
C28_Witness ==
    /\ pc["c1"] = "executing"
    /\ req["c1"] = "Valid"
    /\ disable_auth_token_passthrough
    /\ ctx["c1"].present
    /\ ctx["c1"].valid_token = TokA
    /\ ctx["c1"].session_ids = <<SessionTwo, SessionOne>>
    /\ headersExtra.session = SessionZero
    /\ sentAuth["c1"] = headersAuth
    /\ sentExtra["c1"] = [session |-> SessionTwo, other |-> OtherValue]

----------------------------------------------------------------------------
\* C30: initialize_with_token_refresh goes through its steps in the order
\* verify config, construct the token manager, obtain a token, write it to
\* the config file, verify it, start the background task, set the
\* environment variables; a step starts only when the one before succeeded,
\* a failing step ends the call with Err; the call returns Ok only when all
\* seven succeeded, and the background task runs only after a successful
\* verification.  Checked under SpecStartup.
C30_StepOrder ==
    /\ (startPc = "none" /\ startPc' # "none") => startPc' \in {"new_manager", "done"}
    /\ (startPc = "new_manager" /\ startPc' # startPc) =>
          \/ startPc' = "get_token" /\ tmNew'.result.tag = "Ok"
          \/ startPc' = "done" /\ tmNew'.result.tag = "Err"
    /\ (startPc = "get_token" /\ startPc' # startPc) =>
          \/ startPc' = "update_config" /\ startToken' # NoToken
                /\ access_token' = startToken'
          \/ startPc' = "done"
    /\ (startPc = "update_config" /\ startPc' # startPc) =>
          \/ startPc' = "verify_token" /\ configToken' \in {startToken, NoToken}
          \/ startPc' = "done" /\ configToken' = configToken
    /\ (startPc = "verify_token" /\ startPc' # startPc) =>
          \/ startPc' = "start_task" /\ lastVerify' = "valid"
          \/ startPc' = "done" /\ lastVerify' \in {"invalid", "error"}
    /\ (startPc = "start_task" /\ startPc' # startPc) =>
          startPc' = "set_env" /\ bgPc' = "sleep" /\ bg_access_token' = startToken
    /\ (startPc = "set_env" /\ startPc' # startPc) =>
          startPc' = "done" /\ envSetUp' /\ startResult' = "Ok"
    /\ startPc = "done" => startPc' = "done"
    /\ (startPc # "done" /\ startPc' = "done" /\ startPc # "set_env") =>
          startResult' = "Err"
    /\ (bgPc = "none" /\ bgPc' # "none") =>
          startPc = "start_task" /\ lastVerify = "valid"
    /\ (~envSetUp /\ envSetUp') => bgPc # "none"

C30_OkOnlyAfterEveryStep ==
    /\ startResult = "Ok" =>
          /\ startPc = "done"
          /\ tmNew.result.tag = "Ok"
          /\ startToken # NoToken
          /\ lastVerify = "valid"
          /\ bgPc # "none"
          /\ envSetUp
    /\ bgPc # "none" => lastVerify = "valid"

C30_StepsInOrderOkOnlyIfAllSucceed ==
    [][C30_StepOrder]_vars /\ []C30_OkOnlyAfterEveryStep

\* The call has returned Ok: the config file holds the verified token, the
\* background task is asleep with it and the environment is set.
C30_Witness ==
    /\ startResult = "Ok"
    /\ configAtStart = TokOld
    /\ configToken = startToken
    /\ startToken # TokOld
    /\ bgPc = "sleep"
    /\ bg_access_token = startToken
    /\ envSetUp

\* C31: when update_schema and update_operations have run side by side on
\* clones of one Running and both are past their writes, every operation held
\* was compiled against the schema held.
BothPastTheirWrites ==
    /\ updKind = "update_schema"
    /\ updPc \in {"notify", "idle"}
    /\ uoPc \in {"notify", "sweeping", "idle"}

C31_OperationsCompiledAgainstHeldSchema ==
    BothPastTheirWrites
        => \A i \in 1..Len(operations) : operations[i].schema = schema

\* C32: an operation set that update_operations installed while an
\* update_schema was in progress is still the one held when both are done:
\* the operations held are those of its batch that compile.
DerivesFrom(ops, batch) ==
    \E s \in Schemas :
        IntoInner(ops) = IntoInner(FilterMapCompile(batch, s, mutation_mode))

C32_ConcurrentOperationSetNotLost ==
    (BothPastTheirWrites /\ uoDuring) => DerivesFrom(operations, uoArg)

C34_HeaderTokenNeverExpired ==
    (bgPc # "none" /\ headersAuth = FormatBearer(bg_access_token))
        => now <= bg_token_expires_at

\* C35: with no update in between, a call_tool naming a tool that list_tools
\* returned never answers "tool not found", also when an operation has the
\* name of a built-in tool that is disabled.
C35_ListedToolsAreCallable ==
    \A c \in Callers :
        (pc[c] = "done" /\ result[c] = "not_found")
            => ~\E i \in 1..Len(listed) : listed[i].name = req[c]

\* C37: while the upstream request of a named operation is in flight, the
\* call_tool that sent it does not hold the operations lock.
C37_NoOperationsLockDuringUpstreamRequest ==
    \A c \in Callers : pc[c] = "executing" => opsLock # c

\* C38: a peer that registers while a notification sweep is running is not
\* lost.  The sweep holds the registry from reading the peers to writing the
\* retained ones: a registration is an append made while no sweep holds the
\* registry, and what a sweep writes is what it retains of the registry as
\* it is at that moment, so every peer registered is either part of the
\* sweep or appended after it.
SweepWrites == uoPc = "sweeping" /\ uoPc' = "idle"

C38_RegistrationNotLostBySweep ==
    [][/\ SweepWrites
          => /\ Len(lastSweep') = Len(peers)
             /\ peers' = RetainedPeers(peers, lastSweep')
       /\ (peersLock = "clone" /\ ~SweepWrites) => peers' = peers
       /\ (peers' # peers /\ ~SweepWrites)
          => /\ peersLock = "free"
             /\ \E p \in PeerIds : peers' = Append(peers, p)]_vars

C38_Witness ==
    /\ uoPc = "sweeping"
    /\ peersLock = "clone"
    /\ uoPeers = <<"p1">>
    /\ peers = <<"p1">>
    /\ ~ENABLED Initialize("p2")

\* C39: call_tool never modifies the shared headers.  The shared headers
\* change only when a refresh of the token manager succeeds, and then to the
\* refreshed token; a caller's bearer token and session id are sent upstream
\* for that caller's request only.
SharedHeadersChangeOnlyByRefresh ==
    /\ headersExtra' = headersExtra
    /\ headersAuth' # headersAuth
          => /\ \E c \in Callers : pc[c] = "tm_refresh" /\ tokRes'[c] = "refreshed"
             /\ headersAuth' = FormatBearer(access_token')

CallerHeadersStayWithTheirCall ==
    \A c \in Callers : \A d \in Callers \ {c} :
        /\ (ctx[d].valid_token # NoToken /\ ctx[c].valid_token # ctx[d].valid_token)
              => /\ sentAuth[c] # FormatBearer(ctx[d].valid_token)
                 /\ headersAuth # FormatBearer(ctx[d].valid_token)
        /\ (ctx[d].session_ids # <<>> /\ ctx[c].session_ids # ctx[d].session_ids)
              => /\ sentExtra[c].session # Head(ctx[d].session_ids)
                 /\ headersExtra.session # Head(ctx[d].session_ids)

C39_CallToolNeverModifiesSharedHeaders ==
    [][SharedHeadersChangeOnlyByRefresh]_vars /\ []CallerHeadersStayWithTheirCall

\* Both clients have their requests upstream: the first with its own token
\* and session id, the second with the refreshed token of the shared headers
\* and its own session id.
C39_Witness ==
    /\ pc["c1"] = "executing"
    /\ pc["c2"] = "executing"
    /\ ~disable_auth_token_passthrough
    /\ sentAuth["c1"] = FormatBearer(TokA)
    /\ sentExtra["c1"].session = SessionOne
    /\ headersAuth = FormatBearer(TokB)
    /\ sentAuth["c2"] = FormatBearer(TokB)
    /\ sentExtra["c2"].session = SessionTwo

\* C40: over update_schema calls with no update_operations in between, the
\* operations held only shrink: every operation held after a step was held
\* before it, in the same order, so an operation dropped under one schema
\* does not come back under a later one.
OperationNames(ops) == {ops[i].name : i \in 1..Len(ops)}

C40_UpdateSchemaOnlyShrinksOperations ==
    [][/\ OperationNames(operations') \subseteq OperationNames(operations)
       /\ IsSubsequence(IntoInner(operations'), IntoInner(operations))]_vars

\* GetName was held and listed under schema 1, was dropped by an update to
\* schema 2, and is not held after the update back to schema 1, against
\* which it would compile.
C40_Witness ==
    /\ updKind = "update_schema"
    /\ updPc = "idle"
    /\ schema = 1
    /\ Len(listed) >= 2
    /\ listed[1] = [name |-> "GetName", schema |-> 1, builtin |-> FALSE]
    /\ IntoOperation(RawGetName, schema, mutation_mode).tag = "Some"
    /\ operations = <<[raw |-> RawValid, name |-> "Valid", schema |-> 1]>>

\* C36: no interleaving of call_tool, list_tools, initialize, update_schema,
\* update_operations, the notification sweep and the token refresh deadlocks
\* on the schema, operations, headers, peers and token-manager locks.  A task
\* that holds a lock while it takes another takes them in one order (token
\* manager, schema, operations, headers, peers); no set of tasks waits in a
\* circle; and with upstream calls returning every lock held is released.
LockTasks == Callers \cup {"update", "clone"}

HeldLocks == {"token_manager", "schema", "operations", "peers"}

LockHolder(l) ==
    CASE l = "token_manager" -> tmLock
      [] l = "schema" -> schemaLock
      [] l = "operations" -> opsLock
      [] l = "peers" -> peersLock
      [] OTHER -> "free"

Held(t) == {l \in HeldLocks : LockHolder(l) = t}

\* The lock the next step of a task takes.
WaitsFor(t) ==
    IF t \in Callers
    THEN CASE pc[t] = "tm_wait" -> "token_manager"
           [] pc[t] = "tm_refresh" -> "headers"
           [] pc[t] = "resolve" -> "headers"
           [] pc[t] = "op_wait" -> "operations"
           [] OTHER -> "none"
    ELSE LET at == IF t = "update" THEN updPc ELSE uoPc
         IN CASE at = "us_write_ops" -> "operations"
              [] at = "us_write_schema" -> "schema"
              [] at = "uo_write_ops" -> "operations"
              [] at = "notify" -> "peers"
              [] OTHER -> "none"

LockRank(l) ==
    CASE l = "token_manager" -> 1
      [] l = "schema" -> 2
      [] l = "operations" -> 3
      [] l = "headers" -> 4
      [] l = "peers" -> 5

LocksTakenInOrder ==
    \A t \in LockTasks : \A h \in Held(t) :
        WaitsFor(t) # "none" => LockRank(h) < LockRank(WaitsFor(t))

NoWaitCycle ==
    ~\E S \in (SUBSET LockTasks) \ {{}} :
        \A t \in S : \E u \in S \ {t} :
            WaitsFor(t) # "none" /\ LockHolder(WaitsFor(t)) = u

\* A lock taken by a task that holds another is the one its position says.
TakenAsWaitedFor ==
    \A l \in HeldLocks : \A t \in LockTasks :
        (LockHolder(l)' = t /\ LockHolder(l) # t /\ Held(t) # {})
            => WaitsFor(t) = l

C36_NoDeadlockOnTheLocks ==
    /\ [][TakenAsWaitedFor]_vars
    /\ [](LocksTakenInOrder /\ NoWaitCycle)
    /\ \A l \in HeldLocks : (LockHolder(l) # "free") ~> (LockHolder(l) = "free")

\* update_operations holds the schema lock and waits for the operations
\* lock, which a call_tool holds during its upstream request; update_schema
\* waits for the schema lock; a peer is registered.
C36_Witness ==
    /\ schemaLock = "clone"
    /\ uoPc = "uo_write_ops"
    /\ opsLock = "c1"
    /\ pc["c1"] = "executing"
    /\ updPc = "us_write_schema"
    /\ peers = <<"p1">>
    /\ access_token = TokB

====
